---------------------------- MODULE Spec2Model ----------------------------
(***************************************************************************)
(* A model of the image-merge engine (engine/src): the wasm entry point    *)
(* merge_images, the pipeline of merge (decode, plan, scale, chrome trim,  *)
(* overlap detection, canvas allocation, compositing, encoding) and the    *)
(* pure helpers the pipeline calls.                                        *)
(*                                                                         *)
(* Numbers.  TLC's integers stop at 2^31 - 1, the engine's u32 and u64 do  *)
(* not.  A u32 or u64 quantity of the dimension planner is therefore kept  *)
(* as a pair <<hi, lo>> of base-2^16 limbs (value hi * 2^16 + lo), and an  *)
(* f64 as a 53-bit significand (a sequence of bits, most significant       *)
(* first) with a binary exponent, rounded to nearest-even after every      *)
(* operation as IEEE 754 prescribes.                                       *)
(***************************************************************************)
EXTENDS Integers, Sequences, FiniteSets, TLC

(***************************************************************************)
(* Bit sequences (most significant bit first).  The operators split their  *)
(* argument in halves instead of peeling one bit per call, which keeps the *)
(* evaluation depth logarithmic in the length.                             *)
(***************************************************************************)
\* The number of bits of n, for 0 <= n < 2^30.
BitLen(n) == CHOOSE k \in 0..30 : n < 2 ^ k /\ (k = 0 \/ 2 ^ (k - 1) <= n)

Bits(n) == [i \in 1..BitLen(n) |-> (n \div 2 ^ (BitLen(n) - i)) % 2]

\* k zero bits (none for k <= 0).
Zeros(k) == [i \in 1..(IF k < 0 THEN 0 ELSE k) |-> 0]

AnyOne(b) == \E i \in 1..Len(b) : b[i] = 1

StripZeros(b) ==
    IF ~AnyOne(b) THEN << >>
    ELSE LET first == CHOOSE i \in 1..Len(b) :
                          b[i] = 1 /\ \A j \in 1..(i - 1) : b[j] = 0
         IN  SubSeq(b, first, Len(b))

\* b + 1, as a sequence one bit longer when the carry runs out of the top.
IncBits(b) ==
    LET n == Len(b) IN
    IF \A i \in 1..n : b[i] = 1 THEN << 1 >> \o Zeros(n)
    ELSE LET p == CHOOSE i \in 1..n :
                      b[i] = 0 /\ \A j \in (i + 1)..n : b[j] = 1
         IN  SubSeq(b, 1, p - 1) \o << 1 >> \o Zeros(n - p)

\* The value of a bit sequence of at most 30 bits.
RECURSIVE BitsVal(_)
BitsVal(b) ==
    LET n == Len(b) IN
    IF n = 0 THEN 0
    ELSE IF n = 1 THEN b[1]
    ELSE LET k == n \div 2
         IN  BitsVal(SubSeq(b, 1, k)) * 2 ^ (n - k) + BitsVal(SubSeq(b, k + 1, n))

\* The k-bit binary numeral of n (n < 2^k).
PadBits(n, k) == [i \in 1..k |-> (n \div 2 ^ (k - i)) % 2]

\* b * h for a sequence b of at most 60 bits and an integer 0 <= h < 2^30:
\* schoolbook multiplication on base-2^15 digits, four of b and two of h.
MulBits(b, h) ==
    LET D  == 2 ^ 15
        p  == Zeros(60 - Len(b)) \o b
        s3 == BitsVal(SubSeq(p, 1, 15))
        s2 == BitsVal(SubSeq(p, 16, 30))
        s1 == BitsVal(SubSeq(p, 31, 45))
        s0 == BitsVal(SubSeq(p, 46, 60))
        h1 == h \div D
        h0 == h % D
        c0 == s0 * h0
        c1 == s1 * h0 + s0 * h1 + (c0 \div D)
        c2 == s2 * h0 + s1 * h1 + (c1 \div D)
        c3 == s3 * h0 + s2 * h1 + (c2 \div D)
        c4 == s3 * h1 + (c3 \div D)
    IN  StripZeros(Bits(c4) \o PadBits(c3 % D, 15) \o PadBits(c2 % D, 15)
                   \o PadBits(c1 % D, 15) \o PadBits(c0 % D, 15))

(***************************************************************************)
(* u32 / u64 values as limb pairs.                                         *)
(***************************************************************************)
Limb == 2 ^ 16

Wide(n) == << n \div Limb, n % Limb >>

\* u32::MAX
U32_MAX == << Limb - 1, Limb - 1 >>

WideZero == << 0, 0 >>

WideAdd(a, b) ==
    LET lo == a[2] + b[2]
    IN  << a[1] + b[1] + (lo \div Limb), lo % Limb >>

WideLess(a, b) == a[1] < b[1] \/ (a[1] = b[1] /\ a[2] < b[2])

WideMax(a, b) == IF WideLess(a, b) THEN b ELSE a

\* a - b for a >= b.
WideSub(a, b) ==
    IF a[2] >= b[2] THEN << a[1] - b[1], a[2] - b[2] >>
    ELSE << a[1] - b[1] - 1, a[2] + Limb - b[2] >>

\* a / 2, truncated.
WideHalf(a) == << a[1] \div 2, (a[1] % 2) * (Limb \div 2) + (a[2] \div 2) >>

\* The plain integer of a small value.
Val(a) == a[1] * Limb + a[2]


\* The value of a bit sequence of at most 32 bits.
BitsWide(b) ==
    LET n == Len(b)
    IN  IF n <= 16 THEN << 0, BitsVal(b) >>
        ELSE << BitsVal(SubSeq(b, 1, n - 16)), BitsVal(SubSeq(b, n - 15, n)) >>

(***************************************************************************)
(* f64: [sig |-> 53 bits with sig[1] = 1, exp |-> e] is int(sig) * 2^e;    *)
(* zero is [sig |-> << >>, exp |-> 0].                                     *)
(***************************************************************************)
F64Zero == [sig |-> << >>, exp |-> 0]

\* Round the exact value int(b) * 2^e to 53 significant bits, ties to even.
RoundBits(bits, e) ==
    LET b == StripZeros(bits)
        n == Len(b)
    IN  IF n = 0 THEN F64Zero
        ELSE IF n <= 53 THEN [sig |-> b \o Zeros(53 - n), exp |-> e - (53 - n)]
        ELSE LET keep   == SubSeq(b, 1, 53)
                 guard  == b[54]
                 sticky == AnyOne(SubSeq(b, 55, n))
                 up     == guard = 1 /\ (sticky \/ keep[53] = 1)
                 r      == IF up THEN IncBits(keep) ELSE keep
             IN  IF Len(r) = 54
                 THEN [sig |-> SubSeq(r, 1, 53), exp |-> e + (n - 53) + 1]
                 ELSE [sig |-> r, exp |-> e + (n - 53)]

\* k >= 1 fraction bits of r / w (0 <= r < w < 2^30), by long division, and
\* the remainder left after them.
RECURSIVE DivRun(_, _, _)
DivRun(r, w, k) ==
    IF k = 1
    THEN IF r >= w - r THEN [bits |-> << 1 >>, rem |-> r - (w - r)]
         ELSE [bits |-> << 0 >>, rem |-> r + r]
    ELSE LET a == DivRun(r, w, k \div 2)
             b == DivRun(a.rem, w, k - (k \div 2))
         IN  [bits |-> a.bits \o b.bits, rem |-> b.rem]

\* The k fraction bits followed by a sticky bit: 1 iff the division is inexact.
FracBits(r, w, k) ==
    LET d == DivRun(r, w, k) IN d.bits \o << (IF d.rem = 0 THEN 0 ELSE 1) >>

\* Fraction bits kept by the division before the sticky bit: the quotient of
\* two u32 values has at most 31 leading zero bits after the point.
DivFracBits == 53 + 32 + 2

\* `t as f64 / w as f64` for u32 values t, w >= 1 given as plain integers.
F64DivInt(t, w) ==
    RoundBits(Bits(t \div w) \o FracBits(t % w, w, DivFracBits), -(DivFracBits + 1))

\* `h as f64 * f` for a u32 h given as a plain integer.
F64MulInt(h, f) ==
    IF h = 0 \/ f.sig = << >> THEN F64Zero
    ELSE RoundBits(MulBits(f.sig, h), f.exp)

\* f + 0.5
F64AddHalf(f) ==
    IF f.sig = << >> THEN [sig |-> << 1 >> \o Zeros(52), exp |-> -53]
    ELSE IF f.exp >= 0 THEN RoundBits(f.sig \o Zeros(f.exp) \o << 1 >>, -1)
    ELSE LET pos  == (-1) - f.exp   \* the 2^-1 bit, counted from the last bit
             pad  == Zeros(pos + 1 - 53) \o f.sig
             n    == Len(pad)
             high == SubSeq(pad, 1, n - pos)
             low  == SubSeq(pad, n - pos + 1, n)
         IN  RoundBits(IncBits(high) \o low, f.exp)

\* `f.floor() as u32`: the cast saturates at u32::MAX.
F64FloorToU32(f) ==
    IF f.sig = << >> THEN WideZero
    ELSE IF f.exp >= 0 THEN U32_MAX
    ELSE LET int == SubSeq(f.sig, 1, 53 + f.exp)
         IN  IF Len(int) > 32 THEN U32_MAX ELSE BitsWide(int)

(***************************************************************************)
(* dimension.rs: the dimension planner.  A dimension list is a sequence of *)
(* pairs <<width, height>>; the inputs are plain integers, the scaled      *)
(* dimensions and the output size are limb pairs.                          *)
(***************************************************************************)
MaxOf(S) == CHOOSE m \in S : \A x \in S : x <= m

compute_target_dimension(dimensions, direction) ==
    IF dimensions = << >> THEN 0
    ELSE IF direction \in {"Vertical", "Smart"}
         THEN MaxOf({dimensions[k][1] : k \in DOMAIN dimensions})
         ELSE MaxOf({dimensions[k][2] : k \in DOMAIN dimensions})

\* (value + 0.5).floor() as u32
\* A rounding that adds a whole instead of a half before the floor, against
\* which the size of a single image's canvas is tested.
round_half_up_adds_one(value) == F64FloorToU32(F64AddHalf(F64AddHalf(value)))

round_half_up(value) == F64FloorToU32(F64AddHalf(value))

compute_scaled_dimensions(width, height, target, direction) ==
    IF width = 0 \/ height = 0 \/ target = 0 THEN << WideZero, WideZero >>
    ELSE IF direction \in {"Vertical", "Smart"}
         THEN LET scale      == F64DivInt(target, width)
                  new_height == round_half_up(F64MulInt(height, scale))
              IN  << Wide(target), WideMax(new_height, Wide(1)) >>
         ELSE LET scale     == F64DivInt(target, height)
                  new_width == round_half_up(F64MulInt(width, scale))
              IN  << WideMax(new_width, Wide(1)), Wide(target) >>

\* The u64 sum and maximum of one coordinate (c = 1 width, c = 2 height).
RECURSIVE SumOf(_, _)
SumOf(dims, c) ==
    IF dims = << >> THEN WideZero
    ELSE WideAdd(dims[1][c], SumOf(Tail(dims), c))

RECURSIVE WideMaxOf(_, _)
WideMaxOf(dims, c) ==
    IF dims = << >> THEN WideZero
    ELSE WideMax(dims[1][c], WideMaxOf(Tail(dims), c))

\* An output size accumulated in u32, which wraps at 2^32, against which the
\* u64 accumulation is tested.
compute_output_size_u32(scaled_dimensions_, direction) ==
    IF scaled_dimensions_ = << >> THEN << WideZero, WideZero >>
    ELSE IF direction \in {"Vertical", "Smart"}
         THEN << WideMaxOf(scaled_dimensions_, 1),
                 << SumOf(scaled_dimensions_, 2)[1] % Limb,
                    SumOf(scaled_dimensions_, 2)[2] >> >>
         ELSE << << SumOf(scaled_dimensions_, 1)[1] % Limb,
                    SumOf(scaled_dimensions_, 1)[2] >>,
                 WideMaxOf(scaled_dimensions_, 2) >>

compute_output_size(scaled_dimensions_, direction) ==
    IF scaled_dimensions_ = << >> THEN << WideZero, WideZero >>
    ELSE IF direction \in {"Vertical", "Smart"}
         THEN << WideMaxOf(scaled_dimensions_, 1), SumOf(scaled_dimensions_, 2) >>
         ELSE << SumOf(scaled_dimensions_, 1), WideMaxOf(scaled_dimensions_, 2) >>

\* merge: Smart is sized as Vertical.
direction_for_sizing(direction) ==
    IF direction = "Smart" THEN "Vertical" ELSE direction

\* merge: `output_width > u32::MAX as u64 || output_height > u32::MAX as u64`
ExceedsU32(size) == WideLess(U32_MAX, size[1]) \/ WideLess(U32_MAX, size[2])

\* `x as u32` for a u64 x
AsU32(a) == << a[1] % Limb, a[2] >>

(***************************************************************************)
(* error.rs: MergeError, its Display text and its code.  A text is the     *)
(* sequence of the pieces that `write!` concatenates.                      *)
(***************************************************************************)
NoImages == [kind |-> "NoImages"]

DecodeError(index, file_name, message) ==
    [kind |-> "DecodeError", index |-> index, file_name |-> file_name,
     message |-> message]

TooLarge(width, height, pixels, max) ==
    [kind |-> "TooLarge", width |-> width, height |-> height,
     pixels |-> pixels, max |-> max]

EncodeError(message) == [kind |-> "EncodeError", message |-> message]

\* Option<String>
NoName == << >>

SomeName(name) == << name >>

to_string(error) ==
    CASE error.kind = "NoImages" -> << "No images provided" >>
      [] error.kind = "DecodeError" ->
            << "Failed to decode image at index ", error.index, ": ",
               error.message >>
            \o (IF error.file_name # NoName
                THEN << " (file: ", error.file_name[1], ")" >> ELSE << >>)
      [] error.kind = "TooLarge" ->
            << "Output too large: ", error.width, "x", error.height, " = ",
               error.pixels, " pixels exceeds limit of ", error.max, " pixels" >>
      [] error.kind = "EncodeError" ->
            << "Failed to encode output: ", error.message >>

code(error) ==
    CASE error.kind = "NoImages" -> "NO_IMAGES"
      [] error.kind = "DecodeError" -> "DECODE_FAILED"
      [] error.kind = "TooLarge" -> "TOO_LARGE"
      [] error.kind = "EncodeError" -> "INTERNAL_ERROR"

(***************************************************************************)
(* lib.rs: the error record handed to JavaScript.  A JS object is a        *)
(* function from its property names to their values.                       *)
(***************************************************************************)
create_error_object(error) ==
    LET obj == [code |-> code(error), message |-> to_string(error)]
    IN  IF error.kind = "DecodeError"
        THEN IF error.file_name # NoName
             THEN [code |-> obj.code, message |-> obj.message,
                   fileIndex |-> error.index, fileName |-> error.file_name[1]]
             ELSE [code |-> obj.code, message |-> obj.message,
                   fileIndex |-> error.index]
        ELSE obj

\* The record merge_images builds itself for an element that is no Uint8Array.
InvalidInputObject(index) ==
    [code |-> "INVALID_INPUT", message |-> << "Expected Uint8Array at index" >>,
     fileIndex |-> index]

(***************************************************************************)
(* JavaScript values crossing the wasm boundary.  A number is kept in      *)
(* tenths (n stands for n / 10), which is enough to tell rounding from     *)
(* truncation; a non-finite number has finite = FALSE.                     *)
(***************************************************************************)
Undefined == [t |-> "undefined"]

Null == [t |-> "null"]

Str(s) == [t |-> "string", s |-> s]

Num(n) == [t |-> "number", finite |-> TRUE, n |-> n]

NaN == [t |-> "number", finite |-> FALSE, n |-> 0]

Rgba(r, g, b, a) == [t |-> "object", r |-> r, g |-> g, b |-> b, a |-> a]

Options(direction, background, overlapSensitivity) ==
    [t |-> "object", direction |-> direction, background |-> background,
     overlapSensitivity |-> overlapSensitivity]

(***************************************************************************)
(* types.rs and lib.rs: MergeOptions and the parsing of the options value. *)
(***************************************************************************)
default_overlap_sensitivity == 35

BackgroundColor(r, g, b, a) == [r |-> r, g |-> g, b |-> b, a |-> a]

DefaultBackground == BackgroundColor(255, 255, 255, 255)

DefaultMergeOptions ==
    [direction |-> "Vertical", background |-> DefaultBackground,
     overlap_sensitivity |-> default_overlap_sensitivity]

Clamp(x, lo, hi) == IF x < lo THEN lo ELSE IF x > hi THEN hi ELSE x

\* A conversion that drops the fraction, against which the rounding of
\* overlapSensitivity is tested.
RoundTenths_truncates(n) == IF n >= 0 THEN n \div 10 ELSE -((-n) \div 10)

\* f64::round of n / 10: half away from zero.
RoundTenths(n) == IF n >= 0 THEN (n + 5) \div 10 ELSE -(((-n) + 5) \div 10)

\* get_u8_field(..).unwrap_or(255): `n.clamp(0.0, 255.0) as u8` truncates.
get_u8_field(v) ==
    IF v.t = "number" /\ v.finite THEN Clamp(v.n, 0, 2550) \div 10 ELSE 255

\* Reflect::get fails on a value that is no object, so that every `if let
\* Ok(..)` of parse_options is skipped.
parse_options(opts) ==
    IF opts.t \in {"undefined", "null"} THEN DefaultMergeOptions
    ELSE IF opts.t # "object" THEN DefaultMergeOptions
    ELSE LET direction ==
                 IF opts.direction.t = "string"
                 THEN CASE opts.direction.s = "horizontal" -> "Horizontal"
                        [] opts.direction.s = "smart" -> "Smart"
                        [] OTHER -> "Vertical"
                 ELSE DefaultMergeOptions.direction
             bg == opts.background
             background ==
                 IF bg.t \in {"undefined", "null"} THEN DefaultBackground
                 ELSE IF bg.t = "object"
                      THEN BackgroundColor(get_u8_field(bg.r), get_u8_field(bg.g),
                                           get_u8_field(bg.b), get_u8_field(bg.a))
                      ELSE BackgroundColor(255, 255, 255, 255)
             sv == opts.overlapSensitivity
             overlap_sensitivity ==
                 IF sv.t = "number" /\ sv.finite
                 THEN Clamp(RoundTenths(sv.n), 0, 100)
                 ELSE DefaultMergeOptions.overlap_sensitivity
         IN  [direction |-> direction, background |-> background,
              overlap_sensitivity |-> overlap_sensitivity]

(***************************************************************************)
(* Input elements and images.  An element of the JS array is a value that  *)
(* is no Uint8Array ("other"), a byte buffer no decoder accepts            *)
(* ("garbage"), or the encoding of an image.  An image is described by its *)
(* size, the heights of a uniform bar at its top and at its bottom, and    *)
(* the seed of the texture between them; orient is the EXIF orientation    *)
(* that extract_orientation reads from the bytes.                          *)
(***************************************************************************)
NotBytes ==
    [kind |-> "other", w |-> 0, h |-> 0, top |-> 0, bot |-> 0, seed |-> 0,
     orient |-> 1]

Garbage ==
    [kind |-> "garbage", w |-> 0, h |-> 0, top |-> 0, bot |-> 0, seed |-> 0,
     orient |-> 1]

Encoded(w, h, top, bot, seed, orient) ==
    [kind |-> "image", w |-> w, h |-> h, top |-> top, bot |-> bot,
     seed |-> seed, orient |-> orient]

Picture(w, h, top, bot, seed) ==
    [w |-> w, h |-> h, top |-> top, bot |-> bot, seed |-> seed]

\* A type test that lets every element through, against which the order of
\* validation and decoding is tested.
IsUint8Array_any(item) == TRUE

\* item.is_instance_of::<Uint8Array>()
IsUint8Array(item) == item.kind # "other"

\* decode_image: whether the decoder accepts the bytes.
Decodable(data) == data.kind = "image"

\* decode_image: the picture the bytes encode.
decode_image(data) == Picture(data.w, data.h, data.top, data.bot, data.seed)

(***************************************************************************)
(* exif.rs.  Bytes are numbers 0..255 in a sequence; the byte at the Rust  *)
(* index k is bytes[k + 1].  A function that returns Option<..> yields     *)
(* None, Some(v) or, when an index or a slice is out of bounds, Panic.     *)
(* usize_bits is the width of usize in the build (32 for wasm32).          *)
(***************************************************************************)
None == [kind |-> "none", v |-> 0]

Some(v) == [kind |-> "some", v |-> v]

Panic == [kind |-> "panic", v |-> 0]

\* impl From<u16> for Orientation
Orientation_from(value) == IF value \in 1..8 THEN value ELSE 1

ORIENTATION_TAG == 274

\* The closure read_u16 of parse_tiff_header and parse_ifd_for_orientation.
read_u16(data, offset, is_little_endian) ==
    IF is_little_endian THEN data[offset + 1] + 256 * data[offset + 2]
    ELSE 256 * data[offset + 1] + data[offset + 2]

\* The closure read_u32, as the pair << upper 16 bits, lower 16 bits >>.
read_u32(data, offset, is_little_endian) ==
    IF is_little_endian
    THEN << read_u16(data, offset + 2, TRUE), read_u16(data, offset, TRUE) >>
    ELSE << read_u16(data, offset, FALSE), read_u16(data, offset + 2, FALSE) >>

\* The loop of parse_ifd_for_orientation from entry i on.
RECURSIVE FindTag(_, _, _, _, _)
FindTag(data, entries_start, k, entry_count, is_little_endian) ==
    IF k >= entry_count THEN None
    ELSE LET entry_offset == entries_start + k * 12
         IN  IF entry_offset + 12 > Len(data) THEN None
             ELSE IF read_u16(data, entry_offset, is_little_endian) = ORIENTATION_TAG
                  THEN Some(Orientation_from(
                                read_u16(data, entry_offset + 8, is_little_endian)))
                  ELSE FindTag(data, entries_start, k + 1, entry_count,
                               is_little_endian)

\* ifd_offset is the pair read_u32 returned.  `ifd_offset + 2` overflows a
\* 32-bit usize for the offsets 2^32 - 2 and 2^32 - 1: the sum panics when
\* overflow is checked and wraps to 0 or 1 otherwise, after which
\* data[ifd_offset] is out of bounds; either way the call panics.
parse_ifd_for_orientation(data, ifd_offset, is_little_endian, usize_bits) ==
    IF usize_bits = 32 /\ ifd_offset[1] = 65535 /\ ifd_offset[2] >= 65534 THEN Panic
    ELSE IF ifd_offset[1] > 0 \/ ifd_offset[2] + 2 > Len(data) THEN None
    ELSE LET entry_count   == read_u16(data, ifd_offset[2], is_little_endian)
             entries_start == ifd_offset[2] + 2
         IN  FindTag(data, entries_start, 0, entry_count, is_little_endian)

\* Some(<< is_little_endian, ifd_offset >>) or None
parse_tiff_header(data) ==
    IF Len(data) < 8 THEN None
    ELSE IF SubSeq(data, 1, 2) \notin { << 73, 73 >>, << 77, 77 >> } THEN None
    ELSE LET is_little_endian == SubSeq(data, 1, 2) = << 73, 73 >>
         IN  IF read_u16(data, 2, is_little_endian) # 42 THEN None
             ELSE Some(<< is_little_endian, read_u32(data, 4, is_little_endian) >>)

parse_exif_segment(segment, usize_bits) ==
    IF Len(segment) < 14 \/ SubSeq(segment, 1, 6) # << 69, 120, 105, 102, 0, 0 >>
    THEN None
    ELSE LET tiff_data == SubSeq(segment, 7, Len(segment))
             header    == parse_tiff_header(tiff_data)
         IN  IF header.kind = "none" THEN None
             ELSE parse_ifd_for_orientation(tiff_data, header.v[2], header.v[1],
                                            usize_bits)

\* The loop of parse_jpeg_exif from the position pos on; the function
\* starts it at pos = 2.  &bytes[segment_start..segment_end] panics when
\* segment_start > segment_end.
RECURSIVE parse_jpeg_exif(_, _, _)
parse_jpeg_exif(bytes, pos, usize_bits) ==
    IF ~(pos + 4 <= Len(bytes)) THEN None
    ELSE IF bytes[pos + 1] # 255 THEN None
    ELSE LET marker == bytes[pos + 2]
         IN  IF marker = 255 THEN parse_jpeg_exif(bytes, pos + 1, usize_bits)
             ELSE IF marker = 217 \/ marker = 218 THEN None
             ELSE LET length        == 256 * bytes[pos + 3] + bytes[pos + 4]
                      segment_start == pos + 4
                      segment_end   == pos + 2 + length
                      found ==
                          IF marker = 225 /\ segment_end <= Len(bytes)
                          THEN IF segment_start > segment_end THEN Panic
                               ELSE parse_exif_segment(
                                        SubSeq(bytes, segment_start + 1, segment_end),
                                        usize_bits)
                          ELSE None
                  IN  IF found.kind # "none" THEN found
                      ELSE parse_jpeg_exif(bytes, pos + 2 + length, usize_bits)

\* Literal bytes as a buffer; usize_bits as above.
Bytes(bytes, usize_bits) ==
    [kind |-> "bytes", bytes |-> bytes, usize_bits |-> usize_bits]

\* extract_orientation: the value 1..8 of the Orientation returned, 0 for a
\* call that panics.  For an image of the catalog the orientation its bytes
\* carry is part of its description.
extract_orientation(data) ==
    IF data.kind = "bytes"
    THEN LET bytes == data.bytes
         IN  IF Len(bytes) < 2 THEN 1
             ELSE IF bytes[1] # 255 \/ bytes[2] # 216 THEN 1
             ELSE LET parsed == parse_jpeg_exif(bytes, 2, data.usize_bits)
                  IN  IF parsed.kind = "panic" THEN 0
                      ELSE IF parsed.kind = "some" THEN parsed.v ELSE 1
    ELSE data.orient

\* exif.rs: orientations 5 to 8 turn the picture by a quarter (the bars no
\* longer lie across it), 3 and 4 turn it upside down, 2 mirrors it.
normalize_orientation(img, orientation) ==
    IF orientation = 1 THEN img
    ELSE IF orientation = 2
         THEN Picture(img.w, img.h, img.top, img.bot, img.seed * 8 + 2)
    ELSE IF orientation \in {3, 4}
         THEN Picture(img.w, img.h, img.bot, img.top, img.seed * 8 + orientation)
    ELSE Picture(img.h, img.w, 0, 0, img.seed * 8 + orientation)

\* num / den rounded half up, on integers.
RoundDiv(num, den) == (2 * num + den) \div (2 * den)

\* scale.rs: no resampling when the size is kept; otherwise the resampled
\* picture keeps the bars in proportion.  The size is a pair of limb pairs.
scale_image(img, new_width, new_height) ==
    IF Wide(img.w) = new_width /\ Wide(img.h) = new_height
    THEN [w |-> new_width, h |-> new_height, top |-> img.top, bot |-> img.bot,
          seed |-> img.seed]
    ELSE [w |-> new_width, h |-> new_height,
          top |-> IF img.top = 0 THEN 0
                  ELSE RoundDiv(img.top * Val(new_height), img.h),
          bot |-> IF img.bot = 0 THEN 0
                  ELSE RoundDiv(img.bot * Val(new_height), img.h),
          seed |-> img.seed]

(***************************************************************************)
(* chrome_strip.rs.  The analyzer works on pictures whose sizes are plain  *)
(* integers; Narrow converts a scaled image.  A gray pixel is computed     *)
(* from the picture's description: the bars are uniform, the texture       *)
(* between them varies from pixel to pixel and from seed to seed.          *)
(***************************************************************************)
PROXY_WIDTH == 320

PIXEL_DELTA == 12

MAX_TRIM_PX == 240

MIN_CONTENT_PX == 50

Min(a, b) == IF a < b THEN a ELSE b

Max(a, b) == IF a < b THEN b ELSE a

\* a.saturating_sub(b) on u32
SatSub(a, b) == IF a < b THEN 0 ELSE a - b

Abs(d) == IF d < 0 THEN -d ELSE d

Narrow(img) == Picture(Val(img.w), Val(img.h), img.top, img.bot, img.seed)

ChromeTrim(top, bottom) == [top |-> top, bottom |-> bottom]

\* to_luma8 of the pixel at (x, y)
Luma(img, x, y) ==
    IF y < img.top \/ y >= img.h - img.bot THEN 20
    ELSE (x * 37 + y * 131 + img.seed * 7919) % 251

round_half_up_u64(num, den) == IF den = 0 THEN 0 ELSE (num + (den \div 2)) \div den

\* The proxy is the gray picture itself when the size is kept, and a
\* resampled one (bars in proportion) otherwise.
build_proxy(img) ==
    LET w        == Max(img.w, 1)
        h        == Max(img.h, 1)
        target_w == Max(Min(PROXY_WIDTH, w), 1)
        target_h == Clamp(round_half_up_u64(h * target_w, w), 1, h)
    IN  IF img.w = target_w /\ img.h = target_h THEN img
        ELSE Picture(target_w, target_h,
                     round_half_up_u64(img.top * target_h, h),
                     round_half_up_u64(img.bot * target_h, h), img.seed)

proxy_rows_to_pixels(rows, orig_h, proxy_h) ==
    IF rows = 0 \/ orig_h = 0 \/ proxy_h = 0 THEN 0
    ELSE round_half_up_u64(rows * orig_h, proxy_h)

\* ((height as f32) * 0.20).round(): a fifth of the height, rounded to nearest
\* (height / 5 is never halfway between two integers).
MaxByFraction(height) == (2 * height + 5) \div 10

\* A clamp to a quarter of the height instead of a fifth, against which the
\* bound on the trims is tested.
clamp_trim_quarter(trim, height) ==
    IF height = 0 THEN 0
    ELSE Min(Min(Min(trim, MAX_TRIM_PX), (height + 2) \div 4), height)

clamp_trim(trim, height) ==
    IF height = 0 THEN 0
    ELSE Min(Min(Min(trim, MAX_TRIM_PX), MaxByFraction(height)), height)

\* A trim that is never given up, against which the minimum of content is
\* tested.
enforce_min_content_never(trim, height) == trim

enforce_min_content(trim, height) ==
    IF height = 0 THEN ChromeTrim(0, 0)
    ELSE LET total       == trim.top + trim.bottom
             min_content == Min(MIN_CONTENT_PX, height)
         IN  IF total > SatSub(height, min_content) THEN ChromeTrim(0, 0)
             ELSE trim

\* A margin rounded to the nearest integer, against which the truncation of
\* the cast is tested.
MarginOf_rounded(width) == (width + 20) \div 40

\* ((common_w as f32) * 0.025) as u32: the cast truncates.
MarginOf(width) == width \div 40

common_span(wa, wb) ==
    LET common_w == Min(wa, wb)
        margin   == MarginOf(common_w)
        x0       == Min(margin, common_w)
        x1       == SatSub(common_w, margin)
    IN  IF common_w = 0 THEN << 0, 0 >> ELSE << x0, SatSub(x1, x0) >>

\* The sum of d(x) for x in lo..hi, split in halves.
RECURSIVE SumDiff(_, _, _, _, _, _)
SumDiff(a, b, ay, by, lo, hi) ==
    IF lo > hi THEN 0
    ELSE IF lo = hi THEN Abs(Luma(a, lo, ay) - Luma(b, lo, by))
    ELSE LET mid == (lo + hi) \div 2
         IN  SumDiff(a, b, ay, by, lo, mid) + SumDiff(a, b, ay, by, mid + 1, hi)

\* frac < 0.97 and mean_abs <= 6.0 are decided on the integers: for a span
\* of at most PROXY_WIDTH pixels the f32 quotients compare the same way.
rows_similar(a, b, x0, w, ay, by) ==
    IF w = 0 THEN FALSE
    ELSE LET match_count ==
                 Cardinality({x \in x0..(x0 + w - 1) :
                     Abs(Luma(a, x, ay) - Luma(b, x, by)) <= PIXEL_DELTA})
         IN  IF 100 * match_count < 97 * w THEN FALSE
             ELSE SumDiff(a, b, ay, by, x0, x0 + w - 1) <= 6 * w

\* The first i in lo..(hi - 1) whose rows are not similar, hi when there is
\* none; top = TRUE pairs row i with row i, top = FALSE pairs the rows i
\* above the last row of each proxy.
RECURSIVE FirstBreak(_, _, _, _, _, _, _)
FirstBreak(a, b, x0, w, top, lo, hi) ==
    IF lo >= hi THEN hi
    ELSE IF hi - lo = 1
         THEN IF (IF top THEN rows_similar(a, b, x0, w, lo, lo)
                  ELSE rows_similar(a, b, x0, w, a.h - 1 - lo, b.h - 1 - lo))
              THEN hi ELSE lo
    ELSE LET mid  == (lo + hi) \div 2
             left == FirstBreak(a, b, x0, w, top, lo, mid)
         IN  IF left < mid THEN left ELSE FirstBreak(a, b, x0, w, top, mid, hi)

\* A count of every similar row pair, also those after the first pair that
\* differs, against which the run from row 0 is tested.
count_common_rows_top_all(a, b) ==
    LET max_rows == Min(a.h, b.h)
        span     == common_span(a.w, b.w)
    IN  Cardinality({y \in 0..(max_rows - 1) :
                        rows_similar(a, b, span[1], span[2], y, y)})

count_common_rows_top(a, b) ==
    LET max_rows == Min(a.h, b.h)
        span     == common_span(a.w, b.w)
    IN  IF max_rows = 0 \/ span[2] = 0 THEN 0
        ELSE FirstBreak(a, b, span[1], span[2], TRUE, 0, max_rows)

count_common_rows_bottom(a, b) ==
    LET max_rows == Min(a.h, b.h)
        span     == common_span(a.w, b.w)
    IN  IF max_rows = 0 \/ span[2] = 0 THEN 0
        ELSE FirstBreak(a, b, span[1], span[2], FALSE, 0, max_rows)

\* The trims after the loop over the adjacent pairs: image k takes its top
\* from the pair (k - 1, k) and its bottom from the pair (k, k + 1).
PairTrims(imgs) ==
    LET n       == Len(imgs)
        proxies == [k \in 1..n |-> build_proxy(imgs[k])]
    IN  [k \in 1..n |->
            ChromeTrim(
                IF k = 1 THEN 0
                ELSE clamp_trim(
                         proxy_rows_to_pixels(
                             count_common_rows_top(proxies[k - 1], proxies[k]),
                             imgs[k].h, proxies[k].h),
                         imgs[k].h),
                IF k = n THEN 0
                ELSE clamp_trim(
                         proxy_rows_to_pixels(
                             count_common_rows_bottom(proxies[k], proxies[k + 1]),
                             imgs[k].h, proxies[k].h),
                         imgs[k].h))]

\* Trims handed back in the order last to first, against which the order of
\* the result is tested.
compute_chrome_trims_reversed(imgs) ==
    LET n        == Len(imgs)
        paired   == PairTrims(imgs)
        enforced == [k \in 1..n |-> enforce_min_content(paired[k], imgs[k].h)]
    IN  [k \in 1..n |-> enforced[n + 1 - k]]

compute_chrome_trims(imgs) ==
    LET n        == Len(imgs)
        paired   == PairTrims(imgs)
        enforced == [k \in 1..n |-> enforce_min_content(paired[k], imgs[k].h)]
    IN  [k \in 1..n |->
            ChromeTrim(IF k = 1 THEN 0 ELSE enforced[k].top,
                       IF k = n THEN 0 ELSE enforced[k].bottom)]

(***************************************************************************)
(* overlap.rs.  Scores are f32 values of the matching library; the model   *)
(* keeps a finite score in units of 1/10000 and a variance in tenths, so   *)
(* that the interpolated thresholds are integers.                          *)
(***************************************************************************)
TEMPLATE_HEIGHT_PX == 80

TEMPLATE_HEIGHT_PX_MAX == 240

TEMPLATE_HEIGHT_STEP_PX == 40

MIN_TEMPLATE_HEIGHT == 30

MIN_TEMPLATE_WIDTH == 50

MIN_OVERLAP_PIXELS == 5

Fin(v) == [fin |-> TRUE, v |-> v]

\* A NaN or an infinity.
NotFinite == [fin |-> FALSE, v |-> 0]

\* lerp(start, end, sensitivity / 100) for the three pairs of constants
OverlapConfig(sensitivity) ==
    LET clamped == Min(sensitivity, 100)
    IN  [match_threshold       |-> 8600 - 10 * clamped,
         ambiguity_gap         |-> 400 - 3 * clamped,
         min_template_variance |-> 500 - 4 * clamped,
         sensitivity           |-> clamped]

prefer_smaller_templates(config) == config.sensitivity >= 50

PushUnique(list, value) ==
    IF \E k \in DOMAIN list : list[k] = value THEN list ELSE Append(list, value)

RECURSIVE PushAll(_, _)
PushAll(list, values) ==
    IF values = << >> THEN list
    ELSE PushAll(PushUnique(list, Head(values)), Tail(values))

\* The heights the first loop pushes: down from h in steps, not below min.
RECURSIVE StepsDown(_, _)
StepsDown(h, min_height) ==
    IF h > min_height
    THEN LET next == SatSub(h, TEMPLATE_HEIGHT_STEP_PX)
         IN  IF next < min_height THEN << >>
             ELSE << next >> \o StepsDown(next, min_height)
    ELSE << >>

RECURSIVE StepsUp(_, _)
StepsUp(h, max_height) ==
    IF h < max_height
    THEN LET next == h + TEMPLATE_HEIGHT_STEP_PX
         IN  IF next > max_height THEN << >>
             ELSE << next >> \o StepsUp(next, max_height)
    ELSE << >>

\* h.saturating_add(TEMPLATE_HEIGHT_STEP_PX) is h + 40 for every height
\* below 2^32 - 40, which covers the heights drawn.
build_template_heights(base, min_height, max_height, prefer_smaller) ==
    IF prefer_smaller
    THEN PushAll(<< base >>, StepsDown(base, min_height) \o StepsUp(base, max_height))
    ELSE PushAll(<< base >>, StepsUp(base, max_height) \o StepsDown(base, min_height))

\* Bounds check of the region (x, y, width, height) in img.
extract_grayscale_region(img, x, y, width, height) ==
    ~(x + width > img.w \/ y + height > img.h)

\* ((bottom_h as f32) * percent) as u32 for the two start candidates, 0% and 2%.
TemplateStartY(bottom_h, k) == IF k = 1 THEN 0 ELSE (2 * bottom_h) \div 100

\* Gates that let every pair of widths through, against which the width
\* ratio gate is tested.
SearchGeometry_any_width(img_top, img_bottom) ==
    LET common_width  == Min(img_top.w, img_bottom.w)
        margin        == MarginOf(common_width)
        cropped_width == SatSub(common_width, 2 * margin)
        search_height == img_top.h
    IN  [ok |-> /\ ~(cropped_width < MIN_TEMPLATE_WIDTH)
                /\ ~(img_top.h <= 0)
                /\ ~(search_height < MIN_TEMPLATE_HEIGHT)
                /\ extract_grayscale_region(img_top, margin, 0, cropped_width,
                                            search_height),
         margin |-> margin, cropped_width |-> cropped_width,
         search_height |-> search_height]

\* The gates of detect_overlap before any template is tried.
SearchGeometry(img_top, img_bottom) ==
    LET common_width  == Min(img_top.w, img_bottom.w)
        margin        == MarginOf(common_width)
        cropped_width == SatSub(common_width, 2 * margin)
        search_height == img_top.h
    IN  [ok |-> /\ ~(10 * Min(img_top.w, img_bottom.w) < 9 * Max(img_top.w, img_bottom.w))
                /\ ~(cropped_width < MIN_TEMPLATE_WIDTH)
                /\ ~(img_top.h <= 0)
                /\ ~(search_height < MIN_TEMPLATE_HEIGHT)
                /\ extract_grayscale_region(img_top, margin, 0, cropped_width,
                                            search_height),
         margin |-> margin, cropped_width |-> cropped_width,
         search_height |-> search_height]

\* The template heights tried for start candidate k, in order.
StartHeights(img_bottom, search_height, config, k) ==
    LET template_start_y == TemplateStartY(img_bottom.h, k)
        available        == SatSub(img_bottom.h, template_start_y)
        max_template     == Min(Min(TEMPLATE_HEIGHT_PX_MAX, available),
                                SatSub(search_height, 1))
    IN  IF available < MIN_TEMPLATE_HEIGHT \/ max_template < MIN_TEMPLATE_HEIGHT
        THEN << >>
        ELSE LET base == Clamp(TEMPLATE_HEIGHT_PX, MIN_TEMPLATE_HEIGHT, max_template)
                 hs   == build_template_heights(base, MIN_TEMPLATE_HEIGHT,
                             max_template, prefer_smaller_templates(config))
             IN  [j \in DOMAIN hs |-> [start_y |-> template_start_y, height |-> hs[j]]]

\* A search that tries the fallback start of 2% before the start of 0%,
\* against which the order of the candidates is tested.
Candidates_fallback_first(img_top, img_bottom, sensitivity) ==
    LET g      == SearchGeometry(img_top, img_bottom)
        config == OverlapConfig(sensitivity)
    IN  IF ~g.ok THEN << >>
        ELSE StartHeights(img_bottom, g.search_height, config, 2)
             \o StartHeights(img_bottom, g.search_height, config, 1)

\* The templates detect_overlap visits, in the order of its two loops.
Candidates(img_top, img_bottom, sensitivity) ==
    LET g      == SearchGeometry(img_top, img_bottom)
        config == OverlapConfig(sensitivity)
    IN  IF ~g.ok THEN << >>
        ELSE StartHeights(img_bottom, g.search_height, config, 1)
             \o StartHeights(img_bottom, g.search_height, config, 2)

\* template_variance is 0 on a uniform template (one that lies within a bar)
\* and positive otherwise; VarianceSamples are the positive values tried.
VarianceSamples == {200, 60000}

TemplateVariances(img_bottom, start_y, height) ==
    IF start_y + height <= img_bottom.top \/ start_y >= img_bottom.h - img_bottom.bot
    THEN {0}
    ELSE VarianceSamples

(***************************************************************************)
(* The result of match_template is a grid one column wide (the template    *)
(* is as wide as the search region) with a row per vertical position.  A   *)
(* grid has its maximum `best` at row by, the value `second` at row y2 and *)
(* `base` everywhere else.                                                 *)
(***************************************************************************)
Grid(rows, by, best, y2, second, base) ==
    [rows |-> rows, by |-> by, best |-> best, y2 |-> y2, second |-> second,
     base |-> base]

GridValue(grid, y) ==
    IF y = grid.by THEN grid.best.v
    ELSE IF y = grid.y2 THEN grid.second
    ELSE grid.base

\* The grids the library may return for a result of the given height.
Grids(rows) ==
    { Grid(rows, 0, NotFinite, 0, 0, 0), Grid(rows, 0, Fin(7000), 0, 3000, 3000) }
    \cup { Grid(rows, by, Fin(9000), y2, second, 3000) :
             by \in {0, rows - 1},
             y2 \in {0, rows - 1}, second \in {8900, 5000} }

NegInfinity == [neg_inf |-> TRUE, v |-> 0]

\* A second best taken over every row but the best one, against which the
\* exclusion zone is tested.
find_second_best_no_exclusion(grid, best_y, template_height) ==
    LET outside == {y \in 0..(grid.rows - 1) : y # best_y}
    IN  IF outside = {} THEN NegInfinity
        ELSE [neg_inf |-> FALSE, v |-> MaxOf({GridValue(grid, y) : y \in outside})]

find_second_best(grid, best_y, template_height) ==
    LET exclusion_y == Max(template_height \div 4, 2)
        outside     == {y \in 0..(grid.rows - 1) : Abs(y - best_y) > exclusion_y}
    IN  IF outside = {} THEN NegInfinity
        ELSE [neg_inf |-> FALSE, v |-> MaxOf({GridValue(grid, y) : y \in outside})]

NoOverlap == [some |-> FALSE, overlap_pixels |-> 0]

\* A matching that does not look at the second-best score, against which the
\* ambiguity gate is tested.
perform_matching_unambiguous(grid, template_height, search_start_y, top_height, bottom_height, config) ==
    LET best_score == grid.best
        overlap_pixels == SatSub(top_height, search_start_y + grid.by)
    IN  IF ~best_score.fin \/ best_score.v < config.match_threshold THEN NoOverlap
        ELSE IF overlap_pixels < MIN_OVERLAP_PIXELS \/ overlap_pixels > bottom_height
             THEN NoOverlap
             ELSE [some |-> TRUE, overlap_pixels |-> overlap_pixels]

\* A matching that counts the overlap from the end of the matched template
\* instead of its first row, against which the lower bound of an accepted
\* overlap is tested.
perform_matching_from_template_end(grid, template_height, search_start_y, top_height, bottom_height, config) ==
    LET best_score == grid.best
        best_y     == grid.by
    IN  IF ~best_score.fin \/ best_score.v < config.match_threshold THEN NoOverlap
        ELSE LET second_best == find_second_best(grid, best_y, template_height)
             IN  IF ~second_best.neg_inf
                    /\ best_score.v - second_best.v < config.ambiguity_gap
                 THEN NoOverlap
                 ELSE LET match_y_in_original == search_start_y + best_y + template_height
                          overlap_pixels == SatSub(top_height, match_y_in_original)
                      IN  IF overlap_pixels < MIN_OVERLAP_PIXELS
                             \/ overlap_pixels > bottom_height
                          THEN NoOverlap
                          ELSE [some |-> TRUE, overlap_pixels |-> overlap_pixels]

perform_matching(grid, template_height, search_start_y, top_height, bottom_height, config) ==
    LET best_score == grid.best
        best_y     == grid.by
    IN  IF ~best_score.fin \/ best_score.v < config.match_threshold THEN NoOverlap
        ELSE LET second_best == find_second_best(grid, best_y, template_height)
             IN  IF ~second_best.neg_inf
                    /\ best_score.v - second_best.v < config.ambiguity_gap
                 THEN NoOverlap
                 ELSE LET match_y_in_original == search_start_y + best_y
                          overlap_pixels == SatSub(top_height, match_y_in_original)
                      IN  IF overlap_pixels < MIN_OVERLAP_PIXELS
                             \/ overlap_pixels > bottom_height
                          THEN NoOverlap
                          ELSE [some |-> TRUE, overlap_pixels |-> overlap_pixels]

\* The part of a scaled image the detector is given once its chrome trim is
\* known: the rows between the trimmed top and the trimmed bottom.
CroppedForOverlap(img, trim) ==
    LET top    == Min(trim.top, img.h)
        bottom == Min(trim.bottom, img.h - top)
    IN  Picture(img.w, img.h - top - bottom, SatSub(img.top, top),
                SatSub(img.bot, bottom), img.seed)

\* A step 7.5 that matches the scaled images as they are, against which the
\* use of the trims is tested.
OverlapSource_untrimmed(imgs, trims, k) == Narrow(imgs[k])

\* merge, step 7.5: the k-th of the pictures whose adjacent pairs are matched.
OverlapSource(imgs, trims, k) == CroppedForOverlap(Narrow(imgs[k]), trims[k])

(***************************************************************************)
(* The state of one call of merge_images.                                  *)
(***************************************************************************)
VARIABLES
    images_data,        \* the JS array passed in
    options,            \* the JS options value passed in
    pc,                 \* the statement the call has reached
    i,                  \* index of the running loop, from 0
    images,             \* lib.rs: the byte buffers copied so far
    merge_options,      \* the parsed MergeOptions
    decoded_images,     \* merge: the decoded, normalized pictures
    decode_calls,       \* the indices decode_image was called with, in order
    scaled_dimensions,  \* merge: the planned size of each image
    output_size,        \* merge: << output_width, output_height >>
    scaled_images,      \* merge: the scaled pictures
    scale_calls,        \* the number of scale_image calls made
    chrome_trims,       \* merge: the chrome trims (Smart)
    overlaps,           \* merge: the overlaps recorded so far (Smart)
    cand,               \* detect_overlap: index of the template tried next
    accepted,           \* the match perform_matching accepted in the last step
    output,             \* merge: the canvas
    offset,             \* merge: the running offset of the compositor
    placed,             \* the composite calls made, in order
    encoded,            \* whether the PNG encoder has run
    merge_result,       \* what merge returned
    result,             \* what merge_images returned
    call,               \* a function called on its own: its name and arguments
    ret                 \* what that function returned

vars ==
    << images_data, options, pc, i, images, merge_options, decoded_images,
       decode_calls, scaled_dimensions, output_size, scaled_images, scale_calls,
       chrome_trims, overlaps, cand, accepted, output, offset, placed, encoded,
       merge_result, result, call, ret >>

Pending == [tag |-> "pending"]

Ok == [tag |-> "ok"]

Err(e) == [tag |-> "err", error |-> e]

Thrown(obj) == [tag |-> "err", obj |-> obj]

\* The record of an accepted match: the pair (from 1), the grid the library
\* returned, the template, its variance and the heights and thresholds it was
\* judged by.
Match(pair, grid, template, variance, top_h, bottom_h, config) ==
    [made |-> TRUE, pair |-> pair, grid |-> grid, template |-> template,
     variance |-> variance, top_h |-> top_h, bottom_h |-> bottom_h,
     config |-> config]

NoMatch ==
    [Match(0, Grid(0, 0, NotFinite, 0, 0, 0), [start_y |-> 0, height |-> 0], 0, 0, 0,
           OverlapConfig(0)) EXCEPT !.made = FALSE]

\* No function is called on its own during a call of merge_images.
NoCall == [fn |-> "none"]

NoReturn == [returned |-> FALSE]

Returned(value) == [returned |-> TRUE, panicked |-> FALSE, value |-> value]

\* The function panicked: the wasm instance traps and nothing is returned.
Panicked == [returned |-> TRUE, panicked |-> TRUE, value |-> 0]

NoCanvas == [allocated |-> FALSE, width |-> WideZero, height |-> WideZero]

\* The state of a call that has not started, for given arguments.
Fresh(data, opts) ==
    /\ images_data = data
    /\ options = opts
    /\ pc = "start"
    /\ i = 0
    /\ images = << >>
    /\ merge_options = DefaultMergeOptions
    /\ decoded_images = << >>
    /\ decode_calls = << >>
    /\ scaled_dimensions = << >>
    /\ output_size = << WideZero, WideZero >>
    /\ scaled_images = << >>
    /\ scale_calls = 0
    /\ chrome_trims = << >>
    /\ overlaps = << >>
    /\ cand = 1
    /\ accepted = NoMatch
    /\ output = NoCanvas
    /\ offset = WideZero
    /\ placed = << >>
    /\ encoded = FALSE
    /\ merge_result = Pending
    /\ result = Pending
    /\ call = NoCall
    /\ ret = NoReturn

\* All sequences over S of length at most n.
SeqUpTo(S, n) == UNION {[1..m -> S] : m \in 0..n}

(***************************************************************************)
(* lib.rs: merge_images.                                                   *)
(***************************************************************************)
\* `if length == 0`
CheckLength ==
    /\ pc = "start"
    /\ IF Len(images_data) = 0
       THEN /\ result' = Thrown(create_error_object(NoImages))
            /\ pc' = "done"
       ELSE /\ pc' = "validate"
            /\ UNCHANGED result
    /\ UNCHANGED << call, ret, images_data, options, i, images, merge_options,
                    decoded_images, decode_calls, scaled_dimensions, output_size,
                    scaled_images, scale_calls, chrome_trims, overlaps, cand,
                    accepted, output, offset, placed, encoded, merge_result >>

\* One turn of `for i in 0..length`, and the parsing of the options once the
\* loop is over.
ValidateItem ==
    /\ pc = "validate"
    /\ IF i < Len(images_data)
       THEN LET item == images_data[i + 1]
            IN  IF ~IsUint8Array(item)
                THEN /\ result' = Thrown(InvalidInputObject(i))
                     /\ pc' = "done"
                     /\ UNCHANGED << i, images, merge_options >>
                ELSE /\ images' = Append(images, item)
                     /\ i' = i + 1
                     /\ UNCHANGED << pc, result, merge_options >>
       ELSE /\ merge_options' = parse_options(options)
            /\ pc' = "merge"
            /\ i' = 0
            /\ UNCHANGED << images, result >>
    /\ UNCHANGED << call, ret, images_data, options, decoded_images, decode_calls,
                    scaled_dimensions, output_size, scaled_images, scale_calls,
                    chrome_trims, overlaps, cand, accepted, output, offset,
                    placed, encoded, merge_result >>

(***************************************************************************)
(* merge.rs: merge.                                                        *)
(***************************************************************************)
\* `if images_data.is_empty()`
MergeEntry ==
    /\ pc = "merge"
    /\ IF images = << >>
       THEN /\ merge_result' = Err(NoImages)
            /\ pc' = "return"
       ELSE /\ pc' = "decode"
            /\ UNCHANGED merge_result
    /\ UNCHANGED << call, ret, images_data, options, i, images, merge_options,
                    decoded_images, decode_calls, scaled_dimensions, output_size,
                    scaled_images, scale_calls, chrome_trims, overlaps, cand,
                    accepted, output, offset, placed, encoded, result >>

\* A decode loop that notes a failure and goes on to the next buffer, against
\* which the short circuit of the real loop is tested.
DecodeItem_goes_on ==
    /\ pc = "decode"
    /\ IF i < Len(images)
       THEN LET data == images[i + 1]
            IN  /\ decode_calls' = Append(decode_calls, i)
                /\ i' = i + 1
                /\ UNCHANGED pc
                /\ IF Decodable(data)
                   THEN /\ decoded_images' =
                               Append(decoded_images,
                                      normalize_orientation(decode_image(data),
                                          extract_orientation(data)))
                        /\ UNCHANGED merge_result
                   ELSE /\ merge_result' =
                               Err(DecodeError(i, NoName, "unsupported image format"))
                        /\ UNCHANGED decoded_images
       ELSE /\ pc' = IF merge_result.tag = "err" THEN "return" ELSE "plan"
            /\ i' = 0
            /\ UNCHANGED << decoded_images, decode_calls, merge_result >>
    /\ UNCHANGED << call, ret, images_data, options, images, merge_options,
                    scaled_dimensions, output_size, scaled_images, scale_calls,
                    chrome_trims, overlaps, cand, accepted, output, offset,
                    placed, encoded, result >>

\* Step 1, one turn of the decode loop.
DecodeItem ==
    /\ pc = "decode"
    /\ IF i < Len(images)
       THEN LET data == images[i + 1]
            IN  /\ decode_calls' = Append(decode_calls, i)
                /\ IF Decodable(data)
                   THEN /\ decoded_images' =
                               Append(decoded_images,
                                      normalize_orientation(decode_image(data),
                                          extract_orientation(data)))
                        /\ i' = i + 1
                        /\ UNCHANGED << pc, merge_result >>
                   ELSE /\ merge_result' =
                               Err(DecodeError(i, NoName, "unsupported image format"))
                        /\ pc' = "return"
                        /\ UNCHANGED << i, decoded_images >>
       ELSE /\ pc' = "plan"
            /\ i' = 0
            /\ UNCHANGED << decoded_images, decode_calls, merge_result >>
    /\ UNCHANGED << call, ret, images_data, options, images, merge_options,
                    scaled_dimensions, output_size, scaled_images, scale_calls,
                    chrome_trims, overlaps, cand, accepted, output, offset,
                    placed, encoded, result >>

\* A planner that answers an output beyond the supported size with TooLarge,
\* against which the kinds of error merge returns are tested.
Plan_caps_pixels ==
    /\ pc = "plan"
    /\ LET dimensions ==
               [k \in DOMAIN decoded_images |->
                   << decoded_images[k].w, decoded_images[k].h >>]
           target == compute_target_dimension(dimensions, merge_options.direction)
       IN  IF target = 0
           THEN /\ merge_result' = Err(NoImages)
                /\ pc' = "return"
                /\ UNCHANGED << scaled_dimensions, output_size >>
           ELSE LET planned ==
                        [k \in DOMAIN dimensions |->
                            compute_scaled_dimensions(dimensions[k][1],
                                dimensions[k][2], target, merge_options.direction)]
                    size == compute_output_size(planned,
                                direction_for_sizing(merge_options.direction))
                IN  IF ExceedsU32(size)
                    THEN /\ merge_result' = Err(TooLarge(0, 0, 0, 0))
                         /\ pc' = "return"
                         /\ UNCHANGED << scaled_dimensions, output_size >>
                    ELSE /\ scaled_dimensions' = planned
                         /\ output_size' = << AsU32(size[1]), AsU32(size[2]) >>
                         /\ pc' = "scale"
                         /\ UNCHANGED merge_result
    /\ UNCHANGED << call, ret, images_data, options, i, images, merge_options,
                    decoded_images, decode_calls, scaled_images, scale_calls,
                    chrome_trims, overlaps, cand, accepted, output, offset,
                    placed, encoded, result >>

\* Steps 2 to 5 and the check of the planned size against u32::MAX.
Plan ==
    /\ pc = "plan"
    /\ LET dimensions ==
               [k \in DOMAIN decoded_images |->
                   << decoded_images[k].w, decoded_images[k].h >>]
           target == compute_target_dimension(dimensions, merge_options.direction)
       IN  IF target = 0
           THEN /\ merge_result' = Err(NoImages)
                /\ pc' = "return"
                /\ UNCHANGED << scaled_dimensions, output_size >>
           ELSE LET planned ==
                        [k \in DOMAIN dimensions |->
                            compute_scaled_dimensions(dimensions[k][1],
                                dimensions[k][2], target, merge_options.direction)]
                    size == compute_output_size(planned,
                                direction_for_sizing(merge_options.direction))
                IN  IF ExceedsU32(size)
                    THEN /\ merge_result' =
                                Err(EncodeError("Output dimensions exceed supported size"))
                         /\ pc' = "return"
                         /\ UNCHANGED << scaled_dimensions, output_size >>
                    ELSE /\ scaled_dimensions' = planned
                         /\ output_size' = << AsU32(size[1]), AsU32(size[2]) >>
                         /\ pc' = "scale"
                         /\ UNCHANGED merge_result
    /\ UNCHANGED << call, ret, images_data, options, i, images, merge_options,
                    decoded_images, decode_calls, scaled_images, scale_calls,
                    chrome_trims, overlaps, cand, accepted, output, offset,
                    placed, encoded, result >>

\* Step 7: every image is scaled to its planned size.
ScaleAll ==
    /\ pc = "scale"
    /\ scaled_images' =
           [k \in DOMAIN decoded_images |->
               scale_image(decoded_images[k], scaled_dimensions[k][1],
                           scaled_dimensions[k][2])]
    /\ scale_calls' = scale_calls + Len(decoded_images)
    /\ pc' = IF merge_options.direction = "Smart" THEN "chrome" ELSE "canvas"
    /\ UNCHANGED << call, ret, images_data, options, i, images, merge_options,
                    decoded_images, decode_calls, scaled_dimensions, output_size,
                    chrome_trims, overlaps, cand, accepted, output, offset,
                    placed, encoded, merge_result, result >>

\* Step 7.5, first half: compute_chrome_trims on the scaled images.
SmartChrome ==
    /\ pc = "chrome"
    /\ chrome_trims' =
           compute_chrome_trims([k \in DOMAIN scaled_images |-> Narrow(scaled_images[k])])
    /\ overlaps' = << >>
    /\ cand' = 1
    /\ pc' = "overlap"
    /\ UNCHANGED << call, ret, images_data, options, i, images, merge_options,
                    decoded_images, decode_calls, scaled_dimensions, output_size,
                    scaled_images, scale_calls, accepted, output, offset, placed,
                    encoded, merge_result, result >>

\* Step 7.5, second half: the overlap of the next adjacent pair.  One step
\* tries one template of detect_overlap; the pair's overlap is recorded
\* when a match is accepted (its overlap) or the templates run out (0).
OverlapStep ==
    /\ pc = "overlap"
    /\ IF Len(overlaps) + 1 >= Len(scaled_images)
       THEN /\ pc' = "height"
            /\ accepted' = NoMatch
            /\ UNCHANGED << overlaps, cand >>
       ELSE LET pair       == Len(overlaps) + 1
                img_top    == OverlapSource(scaled_images, chrome_trims, pair)
                img_bottom == OverlapSource(scaled_images, chrome_trims, pair + 1)
                config     == OverlapConfig(merge_options.overlap_sensitivity)
                geometry   == SearchGeometry(img_top, img_bottom)
                templates  == Candidates(img_top, img_bottom,
                                         merge_options.overlap_sensitivity)
            IN  /\ UNCHANGED pc
                /\ IF cand > Len(templates)
                   THEN /\ overlaps' = Append(overlaps, 0)
                        /\ cand' = 1
                        /\ accepted' = NoMatch
                   ELSE LET t == templates[cand]
                        IN  IF t.height >= geometry.search_height
                            THEN /\ cand' = cand + 1
                                 /\ accepted' = NoMatch
                                 /\ UNCHANGED overlaps
                            ELSE IF ~extract_grayscale_region(img_bottom,
                                        geometry.margin, t.start_y,
                                        geometry.cropped_width, t.height)
                            THEN /\ overlaps' = Append(overlaps, 0)
                                 /\ cand' = 1
                                 /\ accepted' = NoMatch
                            ELSE \E variance \in TemplateVariances(img_bottom,
                                                     t.start_y, t.height) :
                                   IF variance < config.min_template_variance
                                   THEN /\ cand' = cand + 1
                                        /\ accepted' = NoMatch
                                        /\ UNCHANGED overlaps
                                   ELSE \E grid \in Grids(geometry.search_height
                                                          - t.height + 1) :
                                          LET r == perform_matching(grid, t.height,
                                                       0, img_top.h, img_bottom.h,
                                                       config)
                                          IN  IF r.some
                                              THEN /\ overlaps' =
                                                          Append(overlaps, r.overlap_pixels)
                                                   /\ accepted' =
                                                          Match(pair, grid, t, variance,
                                                                img_top.h, img_bottom.h,
                                                                config)
                                                   /\ cand' = 1
                                              ELSE /\ cand' = cand + 1
                                                   /\ accepted' = NoMatch
                                                   /\ UNCHANGED overlaps
    /\ UNCHANGED << call, ret, images_data, options, i, images, merge_options,
                    decoded_images, decode_calls, scaled_dimensions, output_size,
                    scaled_images, scale_calls, chrome_trims, output, offset,
                    placed, encoded, merge_result, result >>

RECURSIVE Sum(_)
Sum(seq) == IF seq = << >> THEN 0 ELSE Head(seq) + Sum(Tail(seq))

\* A step 7.5 that takes the trims but not the overlaps off the height,
\* against which the rows the compositor writes are counted.
SmartHeight_keeps_overlaps ==
    /\ pc = "height"
    /\ LET total_trim_top    == Sum([k \in DOMAIN chrome_trims |-> chrome_trims[k].top])
           total_trim_bottom == Sum([k \in DOMAIN chrome_trims |-> chrome_trims[k].bottom])
       IN  output_size' =
               << output_size[1],
                  Wide(SatSub(SatSub(Val(output_size[2]), total_trim_top),
                              total_trim_bottom)) >>
    /\ pc' = "canvas"
    /\ UNCHANGED << call, ret, images_data, options, i, images, merge_options,
                    decoded_images, decode_calls, scaled_dimensions,
                    scaled_images, scale_calls, chrome_trims, overlaps, cand,
                    accepted, output, offset, placed, encoded, merge_result,
                    result >>

\* A step 7.5 that takes off the trims the pair loop measured, before
\* enforce_min_content, against which the use of the final trims is tested.
SmartHeight_measured_trims ==
    /\ pc = "height"
    /\ LET measured == PairTrims([k \in DOMAIN scaled_images |->
                                     Narrow(scaled_images[k])])
           total_trim_top    == Sum([k \in DOMAIN measured |-> measured[k].top])
           total_trim_bottom == Sum([k \in DOMAIN measured |-> measured[k].bottom])
           total_overlap     == Sum(overlaps)
       IN  output_size' =
               << output_size[1],
                  Wide(SatSub(SatSub(SatSub(Val(output_size[2]), total_trim_top),
                                     total_trim_bottom), total_overlap)) >>
    /\ pc' = "canvas"
    /\ UNCHANGED << call, ret, images_data, options, i, images, merge_options,
                    decoded_images, decode_calls, scaled_dimensions,
                    scaled_images, scale_calls, chrome_trims, overlaps, cand,
                    accepted, output, offset, placed, encoded, merge_result,
                    result >>

\* A step 7.5 that also takes a row off for every seam, against which the
\* equality with the Vertical canvas is tested.
SmartHeight_cuts_seams ==
    /\ pc = "height"
    /\ LET total_trim_top    == Sum([k \in DOMAIN chrome_trims |-> chrome_trims[k].top])
           total_trim_bottom == Sum([k \in DOMAIN chrome_trims |-> chrome_trims[k].bottom])
           total_overlap     == Sum(overlaps) + Len(overlaps)
       IN  output_size' =
               << output_size[1],
                  Wide(SatSub(SatSub(SatSub(Val(output_size[2]), total_trim_top),
                                     total_trim_bottom), total_overlap)) >>
    /\ pc' = "canvas"
    /\ UNCHANGED << call, ret, images_data, options, i, images, merge_options,
                    decoded_images, decode_calls, scaled_dimensions,
                    scaled_images, scale_calls, chrome_trims, overlaps, cand,
                    accepted, output, offset, placed, encoded, merge_result,
                    result >>

\* Step 7.5, the end: the output height loses the trims and the overlaps.
SmartHeight ==
    /\ pc = "height"
    /\ LET total_trim_top    == Sum([k \in DOMAIN chrome_trims |-> chrome_trims[k].top])
           total_trim_bottom == Sum([k \in DOMAIN chrome_trims |-> chrome_trims[k].bottom])
           total_overlap     == Sum(overlaps)
       IN  output_size' =
               << output_size[1],
                  Wide(SatSub(SatSub(SatSub(Val(output_size[2]), total_trim_top),
                                     total_trim_bottom), total_overlap)) >>
    /\ pc' = "canvas"
    /\ UNCHANGED << call, ret, images_data, options, i, images, merge_options,
                    decoded_images, decode_calls, scaled_dimensions,
                    scaled_images, scale_calls, chrome_trims, overlaps, cand,
                    accepted, output, offset, placed, encoded, merge_result,
                    result >>

\* Step 8: the canvas of the planned size, filled with the background.
AllocCanvas ==
    /\ pc = "canvas"
    /\ output' = [allocated |-> TRUE, width |-> output_size[1],
                  height |-> output_size[2]]
    /\ offset' = WideZero
    /\ i' = 0
    /\ pc' = "composite"
    /\ UNCHANGED << call, ret, images_data, options, images, merge_options, decoded_images,
                    decode_calls, scaled_dimensions, output_size, scaled_images,
                    scale_calls, chrome_trims, overlaps, cand, accepted, placed,
                    encoded, merge_result, result >>

Placement(index, x, y, crop_top, crop_bottom) ==
    [index |-> index, x |-> x, y |-> y, crop_top |-> crop_top,
     crop_bottom |-> crop_bottom]

\* A compositor that keeps the rows between the crops but puts source row y
\* at y_offset + y, against which the rows of adjacent images are compared.
composite_image_with_vertical_crop_unshifted(dest_h, src_h, y_offset, crop_top, crop_bottom) ==
    IF src_h = 0 THEN [rows |-> {}, kept |-> 0]
    ELSE LET top             == Min(crop_top, src_h)
             bottom          == Min(crop_bottom, SatSub(src_h, top))
             end_y_exclusive == SatSub(src_h, bottom)
             source          == {y \in 0..(src_h - 1) : ~(y < top \/ y >= end_y_exclusive)}
         IN  [rows |-> {y_offset + y : y \in
                           {y \in source : y_offset + y < dest_h}},
              kept |-> Cardinality(source)]

\* The canvas rows composite_image_with_vertical_crop writes for a source of
\* src_h rows placed at y_offset in a canvas of dest_h rows, and the number
\* of source rows between the two crops.
composite_image_with_vertical_crop(dest_h, src_h, y_offset, crop_top, crop_bottom) ==
    IF src_h = 0 THEN [rows |-> {}, kept |-> 0]
    ELSE LET top             == Min(crop_top, src_h)
             bottom          == Min(crop_bottom, SatSub(src_h, top))
             end_y_exclusive == SatSub(src_h, bottom)
             source          == {y \in 0..(src_h - 1) : ~(y < top \/ y >= end_y_exclusive)}
         IN  [rows |-> {y_offset + (y - top) : y \in
                           {y \in source : y_offset + (y - top) < dest_h}},
              kept |-> Cardinality(source)]

\* A blend that mixes every pixel with the background by the general
\* formula, against which the two verbatim cases are tested.
blend_with_background_always_mixes(pixel, background) ==
    LET a == pixel[4]
        blend(fg, bg) == (2 * (fg * a + bg * (255 - a)) + 255) \div 510
    IN  << blend(pixel[1], background.r), blend(pixel[2], background.g),
           blend(pixel[3], background.b), background.a >>

\* blend_with_background on a pixel << r, g, b, a >>.  alpha = a / 255 is
\* >= 1.0 only for a = 255 and <= 0.0 only for a = 0; in between the f32
\* expression (fg * alpha + bg * (1 - alpha)).round() is off the exact
\* value by far less than its distance 1/510 to the next half, so it
\* equals the exact quotient rounded to the nearest integer.
blend_with_background(pixel, background) ==
    LET a == pixel[4]
        blend(fg, bg) == (2 * (fg * a + bg * (255 - a)) + 255) \div 510
    IN  IF a >= 255 THEN pixel
        ELSE IF a <= 0
             THEN << background.r, background.g, background.b, background.a >>
             ELSE << blend(pixel[1], background.r), blend(pixel[2], background.g),
                     blend(pixel[3], background.b), background.a >>

\* The canvas columns and rows composite_image writes for a source of
\* src_w by src_h pixels placed at (x_offset, y_offset) in a canvas of dest_w
\* by dest_h pixels: a pixel is written when it lies on the canvas.
composite_image(dest_w, dest_h, src_w, src_h, x_offset, y_offset) ==
    LET cols == {x_offset + x : x \in {x \in 0..(src_w - 1) : x_offset + x < dest_w}}
        rows == {y_offset + y : y \in {y \in 0..(src_h - 1) : y_offset + y < dest_h}}
    IN  [cols |-> IF rows = {} THEN {} ELSE cols,
         rows |-> IF cols = {} THEN {} ELSE rows,
         skipped |-> Cardinality(cols) * Cardinality(rows) < src_w * src_h]

\* A compositing loop that in a Vertical run moves on by the width of the
\* image instead of its height, against which the row bands are tested.
CompositeItem_advances_by_width ==
    /\ pc = "composite"
    /\ IF i < Len(scaled_images)
       THEN LET w == scaled_dimensions[i + 1][1]
                h == scaled_dimensions[i + 1][2]
            IN  /\ i' = i + 1
                /\ UNCHANGED pc
                /\ CASE merge_options.direction = "Vertical" ->
                          LET x_offset == WideHalf(WideSub(output.width, w))
                          IN  /\ placed' = Append(placed,
                                      Placement(i, x_offset, offset, 0, 0))
                              /\ offset' = WideAdd(offset, w)
                     [] merge_options.direction = "Horizontal" ->
                          LET y_offset == WideHalf(WideSub(output.height, h))
                          IN  /\ placed' = Append(placed,
                                      Placement(i, offset, y_offset, 0, 0))
                              /\ offset' = WideAdd(offset, w)
                     [] merge_options.direction = "Smart" ->
                          LET x_offset == WideHalf(WideSub(output.width, w))
                              trim     == chrome_trims[i + 1]
                              overlap_from_prev ==
                                  IF i > 0 THEN overlaps[i] ELSE 0
                              crop_top    == trim.top + overlap_from_prev
                              crop_bottom == trim.bottom
                              rendered_h  ==
                                  SatSub(SatSub(Val(h), crop_top), crop_bottom)
                          IN  /\ placed' = Append(placed,
                                      Placement(i, x_offset, offset, crop_top,
                                                crop_bottom))
                              /\ offset' = WideAdd(offset, Wide(rendered_h))
       ELSE /\ pc' = "encode"
            /\ UNCHANGED << i, placed, offset >>
    /\ UNCHANGED << call, ret, images_data, options, images, merge_options, decoded_images,
                    decode_calls, scaled_dimensions, output_size, scaled_images,
                    scale_calls, chrome_trims, overlaps, cand, accepted, output,
                    encoded, merge_result, result >>

\* Step 9, one turn of the compositing loop.
CompositeItem ==
    /\ pc = "composite"
    /\ IF i < Len(scaled_images)
       THEN LET w == scaled_dimensions[i + 1][1]
                h == scaled_dimensions[i + 1][2]
            IN  /\ i' = i + 1
                /\ UNCHANGED pc
                /\ CASE merge_options.direction = "Vertical" ->
                          LET x_offset == WideHalf(WideSub(output.width, w))
                          IN  /\ placed' = Append(placed,
                                      Placement(i, x_offset, offset, 0, 0))
                              /\ offset' = WideAdd(offset, h)
                     [] merge_options.direction = "Horizontal" ->
                          LET y_offset == WideHalf(WideSub(output.height, h))
                          IN  /\ placed' = Append(placed,
                                      Placement(i, offset, y_offset, 0, 0))
                              /\ offset' = WideAdd(offset, w)
                     [] merge_options.direction = "Smart" ->
                          LET x_offset == WideHalf(WideSub(output.width, w))
                              trim     == chrome_trims[i + 1]
                              overlap_from_prev ==
                                  IF i > 0 THEN overlaps[i] ELSE 0
                              crop_top    == trim.top + overlap_from_prev
                              crop_bottom == trim.bottom
                              rendered_h  ==
                                  SatSub(SatSub(Val(h), crop_top), crop_bottom)
                          IN  /\ placed' = Append(placed,
                                      Placement(i, x_offset, offset, crop_top,
                                                crop_bottom))
                              /\ offset' = WideAdd(offset, Wide(rendered_h))
       ELSE /\ pc' = "encode"
            /\ UNCHANGED << i, placed, offset >>
    /\ UNCHANGED << call, ret, images_data, options, images, merge_options, decoded_images,
                    decode_calls, scaled_dimensions, output_size, scaled_images,
                    scale_calls, chrome_trims, overlaps, cand, accepted, output,
                    encoded, merge_result, result >>

\* Step 10: the PNG encoder writes the canvas or reports an error.
Encode ==
    /\ pc = "encode"
    /\ encoded' = TRUE
    /\ \E written \in BOOLEAN :
          merge_result' = IF written THEN Ok ELSE Err(EncodeError("encoder error"))
    /\ pc' = "return"
    /\ UNCHANGED << call, ret, images_data, options, i, images, merge_options,
                    decoded_images, decode_calls, scaled_dimensions, output_size,
                    scaled_images, scale_calls, chrome_trims, overlaps, cand,
                    accepted, output, offset, placed, result >>

\* lib.rs: the match on merge's result.
Return ==
    /\ pc = "return"
    /\ result' = IF merge_result.tag = "ok"
                 THEN [tag |-> "ok", width |-> output.width, height |-> output.height]
                 ELSE Thrown(create_error_object(merge_result.error))
    /\ pc' = "done"
    /\ UNCHANGED << call, ret, images_data, options, i, images, merge_options,
                    decoded_images, decode_calls, scaled_dimensions, output_size,
                    scaled_images, scale_calls, chrome_trims, overlaps, cand,
                    accepted, output, offset, placed, encoded, merge_result >>

Next ==
    \/ CheckLength
    \/ ValidateItem
    \/ MergeEntry
    \/ DecodeItem
    \/ Plan
    \/ ScaleAll
    \/ SmartChrome
    \/ OverlapStep
    \/ SmartHeight
    \/ AllocCanvas
    \/ CompositeItem
    \/ Encode
    \/ Return

(***************************************************************************)
(* The calls checked.  Spec: arrays of at most MaxImages elements over a   *)
(* catalog with a non-buffer, an undecodable buffer and pictures of        *)
(* several shapes, under four option values.                               *)
(***************************************************************************)
MaxImages == 2

Init ==
    LET Catalog ==
            { NotBytes, Garbage,
              Encoded(6, 27, 0, 0, 1, 1), Encoded(13, 1, 0, 0, 2, 1),
              Encoded(27, 6, 0, 0, 3, 1), Encoded(13, 1, 0, 0, 4, 6),
              Encoded(52, 100, 20, 20, 5, 1) }
        OptionValues ==
            { Undefined,
              Options(Str("horizontal"), Undefined, Undefined),
              Options(Str("smart"), Null, Num(600)),
              Options(Str("diagonal"), Rgba(Num(0), Num(1275), NaN, Undefined), Num(354)) }
    IN  \E data \in SeqUpTo(Catalog, MaxImages), opts \in OptionValues :
            Fresh(data, opts)

Spec == Init /\ [][Next]_vars

(***************************************************************************)
(* SpecWide: Vertical and Horizontal calls on pictures so long or so wide  *)
(* that the planned canvas comes close to, reaches or passes u32::MAX.     *)
(***************************************************************************)
MaxWideImages == 3

InitWide ==
    LET WideCatalog ==
            { Encoded(1, 2 ^ 29, 0, 0, 1, 1), Encoded(2, 2 ^ 29, 0, 0, 2, 1),
              Encoded(4, 2 ^ 30 - 1, 0, 0, 3, 1), Encoded(1, 2 ^ 29, 0, 0, 4, 6),
              Encoded(4, 2 ^ 30 - 1, 0, 0, 5, 8) }
        WideOptionValues == { Undefined, Options(Str("horizontal"), Undefined, Undefined) }
    IN  \E data \in SeqUpTo(WideCatalog, MaxWideImages), opts \in WideOptionValues :
            Fresh(data, opts)

NextWide ==
    \/ CheckLength
    \/ ValidateItem
    \/ MergeEntry
    \/ DecodeItem
    \/ Plan
    \/ ScaleAll
    \/ AllocCanvas
    \/ CompositeItem
    \/ Encode
    \/ Return

SpecWide == InitWide /\ [][NextWide]_vars

(***************************************************************************)
(* SpecSmart: Smart calls on screenshots of one width with bars at the top *)
(* and at the bottom, one of them stored at half the size: every sequence  *)
(* of at most MaxSmartImages of them, and every run of one screenshot      *)
(* repeated up to MaxRepeats times.                                        *)
(***************************************************************************)
MaxSmartImages == 3

MaxRepeats == 4

SmartCatalog ==
    { Encoded(52, 100, 20, 20, 5, 1), Encoded(52, 60, 10, 10, 6, 1),
      Encoded(26, 20, 3, 3, 7, 1) }

SmartInputs ==
    SeqUpTo(SmartCatalog, MaxSmartImages)
    \cup { [k \in 1..n |-> shot] : shot \in SmartCatalog, n \in 1..MaxRepeats }

InitSmart ==
    LET SmartOptionValues ==
            { Options(Str("smart"), Undefined, Undefined),
              Options(Str("smart"), Undefined, Num(600)) }
    IN  \E data \in SmartInputs, opts \in SmartOptionValues : Fresh(data, opts)

SpecSmart == InitSmart /\ [][Next]_vars

(***************************************************************************)
(* SpecErr: merge has returned some MergeError and merge_images turns it   *)
(* into the record it throws.                                              *)
(***************************************************************************)
MaxErrorIndex == 7

InitErr ==
    LET ErrorValues ==
            { NoImages }
            \cup { DecodeError(index, name, message) :
                     index \in 0..MaxErrorIndex,
                     name \in {NoName, SomeName("a.png"), SomeName("b.jpg")},
                     message \in {"unsupported image format", "unexpected end of file"} }
            \cup { TooLarge(width, height, width * height, max) :
                     width \in {5000, 10000}, height \in {20000, 40000},
                     max \in {16000000, 100000000} }
            \cup { EncodeError(message) :
                     message \in {"Output dimensions exceed supported size", "encoder error"} }
    IN  \E e \in ErrorValues :
            /\ images_data = << Garbage >>
            /\ options = Undefined
            /\ pc = "return"
            /\ i = 0
            /\ images = << Garbage >>
            /\ merge_options = DefaultMergeOptions
            /\ decoded_images = << >>
            /\ decode_calls = << >>
            /\ scaled_dimensions = << >>
            /\ output_size = << WideZero, WideZero >>
            /\ scaled_images = << >>
            /\ scale_calls = 0
            /\ chrome_trims = << >>
            /\ overlaps = << >>
            /\ cand = 1
            /\ accepted = NoMatch
            /\ output = NoCanvas
            /\ offset = WideZero
            /\ placed = << >>
            /\ encoded = FALSE
            /\ merge_result = Err(e)
            /\ result = Pending
            /\ call = NoCall
            /\ ret = NoReturn

NextErr == Return

SpecErr == InitErr /\ [][NextErr]_vars

(***************************************************************************)
(* SpecCalls: functions of the engine called on their own, each on         *)
(* arguments drawn from a set; no call of merge_images is under way.       *)
(***************************************************************************)
\* The variables of a call of merge_images.
merge_vars ==
    << images_data, options, pc, i, images, merge_options, decoded_images,
       decode_calls, scaled_dimensions, output_size, scaled_images, scale_calls,
       chrome_trims, overlaps, cand, accepted, output, offset, placed, encoded,
       merge_result, result >>

\* The state in which the function call c is about to be made.
Alone(c) ==
    /\ call = c
    /\ ret = NoReturn
    /\ images_data = << >>
    /\ options = Undefined
    /\ pc = "done"
    /\ i = 0
    /\ images = << >>
    /\ merge_options = DefaultMergeOptions
    /\ decoded_images = << >>
    /\ decode_calls = << >>
    /\ scaled_dimensions = << >>
    /\ output_size = << WideZero, WideZero >>
    /\ scaled_images = << >>
    /\ scale_calls = 0
    /\ chrome_trims = << >>
    /\ overlaps = << >>
    /\ cand = 1
    /\ accepted = NoMatch
    /\ output = NoCanvas
    /\ offset = WideZero
    /\ placed = << >>
    /\ encoded = FALSE
    /\ merge_result = Pending
    /\ result = Pending

Blend ==
    /\ call.fn = "blend_with_background"
    /\ ~ret.returned
    /\ ret' = Returned(blend_with_background(call.pixel, call.background))
    /\ UNCHANGED << merge_vars, call >>

ParseOptions ==
    /\ call.fn = "parse_options"
    /\ ~ret.returned
    /\ ret' = Returned(parse_options(call.options))
    /\ UNCHANGED << merge_vars, call >>

ExtractOrientation ==
    /\ call.fn = "extract_orientation"
    /\ ~ret.returned
    /\ LET orientation == extract_orientation(call.data)
       IN  ret' = IF orientation = 0 THEN Panicked ELSE Returned(orientation)
    /\ UNCHANGED << merge_vars, call >>

BuildTemplateHeights ==
    /\ call.fn = "build_template_heights"
    /\ ~ret.returned
    /\ ret' = Returned(build_template_heights(call.base, call.min_height,
                   call.max_height,
                   prefer_smaller_templates(OverlapConfig(call.sensitivity))))
    /\ UNCHANGED << merge_vars, call >>

InitCalls ==
    \* Pixels as << r, g, b, a >>: opaque, transparent and three alphas between.
    LET BlendCalls ==
            { [fn |-> "blend_with_background", pixel |-> << c[1], c[2], c[3], a >>,
               background |-> bg] :
                c \in { << 0, 100, 255 >>, << 255, 255, 255 >>, << 10, 20, 30 >> },
                a \in { 0, 1, 128, 254, 255 },
                bg \in { BackgroundColor(255, 255, 255, 255), BackgroundColor(0, 0, 0, 0),
                         BackgroundColor(10, 200, 30, 128), BackgroundColor(255, 0, 40, 1) } }
        \* Option values: no object at all, or an object whose three properties
        \* are missing, null, of the wrong type, non-finite, fractional or out of
        \* range.
        ParseCalls ==
            { [fn |-> "parse_options", options |-> o] :
                o \in { Undefined, Null, Num(50), Str("smart") } }
            \cup
            { [fn |-> "parse_options", options |-> Options(d, bg, s)] :
                d \in { Undefined, Null, Num(10), Str("horizontal"), Str("smart"),
                        Str("vertical"), Str("Horizontal") },
                bg \in { Undefined, Null, Num(70), Rgba(Num(0), Num(10), Num(2550), Num(1280)),
                         Rgba(Num(-10), Num(2555), Num(30000), Num(1279)),
                         Rgba(NaN, Undefined, Null, Str("7")),
                         Rgba(Num(5), Num(9), NaN, Num(2549)) },
                s \in { Undefined, Null, NaN, Str("50"), Num(-4), Num(-6), Num(-500), Num(0),
                        Num(354), Num(355), Num(994), Num(996), Num(1000), Num(1005),
                        Num(5000) } }
        \* Buffers for extract_orientation: bytes that are no JPEG, and JPEG files
        \* with an APP1 segment after nothing, a padding byte or an APP0 segment.
        \* The segment declares a length (42 is the true one), and holds an Exif
        \* header, a TIFF header and an IFD of two entries, the second of which is
        \* the orientation tag.
        ExifCalls ==
            LET U16(v, le) == IF le THEN << v % 256, v \div 256 >> ELSE << v \div 256, v % 256 >>
                U32(p, le) == IF le THEN U16(p[2], le) \o U16(p[1], le)
                              ELSE U16(p[1], le) \o U16(p[2], le)
                Segment(marker, declared, payload) ==
                    << 255, marker, declared \div 256, declared % 256 >> \o payload
                Entry(tag, value, le) ==
                    U16(tag, le) \o U16(3, le) \o U32(<< 0, 1 >>, le) \o U16(value, le) \o << 0, 0 >>
                Tiff(order, magic, ifd, value) ==
                    LET le == order # "MM"
                    IN  (IF order = "II" THEN << 73, 73 >>
                         ELSE IF order = "MM" THEN << 77, 77 >> ELSE << 88, 88 >>)
                        \o U16(magic, le) \o U32(ifd, le) \o U16(2, le)
                        \o Entry(256, 7, le) \o Entry(ORIENTATION_TAG, value, le)
                Exif(head_ok, order, magic, ifd, value) ==
                    (IF head_ok THEN << 69, 120, 105, 102, 0, 0 >>
                     ELSE << 69, 120, 105, 116, 0, 0 >>) \o Tiff(order, magic, ifd, value)
                Lead(lead) ==
                    IF lead = "padding" THEN << 255 >>
                    ELSE IF lead = "app0" THEN Segment(224, 4, << 1, 2 >>) ELSE << >>
            IN  { [fn |-> "extract_orientation", shape |-> "raw", data |-> Bytes(b, bits)] :
                    b \in { << >>, << 255 >>, << 137, 80, 78, 71, 13, 10, 26, 10 >>,
                            << 255, 216 >>, << 255, 216, 255, 217 >>, << 255, 216, 0, 225, 0, 0 >>,
                            << 255, 216, 255, 225, 0, 0 >>, << 255, 216, 255, 225, 0, 1 >>,
                            << 216, 255, 255, 225, 0, 0 >>, << 255, 216, 255, 225, 0 >>,
                            << 255, 216, 255, 224, 0, 0, 255, 217 >> },
                    bits \in { 32, 64 } }
                \cup
                { [fn |-> "extract_orientation", shape |-> "exif", lead |-> lead,
                   declared |-> declared, head_ok |-> head_ok, order |-> order,
                   magic |-> magic, ifd |-> ifd, tag_value |-> value,
                   data |-> Bytes(<< 255, 216 >> \o Lead(lead)
                                  \o Segment(225, declared,
                                             Exif(head_ok, order, magic, ifd, value))
                                  \o << 255, 217 >>, bits)] :
                    lead \in { "none", "padding", "app0" },
                    declared \in { 0, 1, 2, 30, 42, 60 },
                    head_ok \in BOOLEAN, order \in { "II", "MM", "XX" }, magic \in { 42, 43 },
                    ifd \in { << 0, 8 >>, << 0, 500 >>, << 1, 8 >>, << 65535, 65534 >>,
                              << 65535, 65535 >> },
                    value \in { 0, 1, 6, 8, 9, 99 }, bits \in { 32, 64 } }
        \* Every min <= base <= max over heights on, next to and between the
        \* steps of 40, at sensitivities on both sides of 50.
        HeightCalls ==
            LET heights == { 0, 1, 29, 30, 40, 41, 70, 79, 80, 81, 120, 121, 160, 239, 240 }
            IN  { c \in [fn : {"build_template_heights"}, base : heights,
                            min_height : heights, max_height : heights,
                            sensitivity : { 0, 49, 50, 100 }] :
                    c.min_height <= c.base /\ c.base <= c.max_height }
        \* Pairs of proxies for the row counts: widths on both sides of the
        \* multiples of 20 and 40, width 0, heights 0, 2 and 5, with and
        \* without a bar at the top and at the bottom.
        RowCalls ==
            { [fn |-> "count_common_rows",
               a |-> Picture(wa, ha, ta, Min(ta, 1), 1),
               b |-> Picture(wb, hb, 2, 1, sb)] :
                wa \in { 0, 1, 19, 20, 39, 40, 41, 80 }, ha \in { 0, 2, 5 },
                ta \in { 0, 2 },
                wb \in { 0, 1, 19, 20, 39, 40, 41, 80 }, hb \in { 0, 5 },
                sb \in { 1, 2 } }
        \* Sequences of up to three screenshots for compute_chrome_trims run
        \* pair by pair: equal and different bars, equal and different
        \* content, and a narrow low image.
        TrimCalls ==
            { [fn |-> "compute_chrome_trims", images |-> imgs] :
                imgs \in SeqUpTo({ Picture(40, 60, 4, 3, 1), Picture(40, 60, 4, 2, 2),
                                   Picture(40, 70, 6, 3, 1), Picture(20, 8, 2, 1, 3) }, 3) }
        \* Lists of up to two sizes, zero dimensions among them, in the
        \* three directions.
        TargetCalls ==
            { [fn |-> "compute_target_dimension", dimensions |-> dims,
               direction |-> d] :
                dims \in SeqUpTo({ << w, h >> : w \in { 0, 1, 7 }, h \in { 0, 3, 7 } }, 2),
                d \in { "Vertical", "Horizontal", "Smart" } }
        \* The calls of perform_matching that detect_overlap makes for a top
        \* and a bottom image 60 columns wide: every template it visits, with
        \* every grid the library may return for that template.
        MatchCalls ==
            LET Shot(h) == Picture(60, h, 0, 0, 1)
            IN  UNION { UNION { { [fn |-> "perform_matching", grid |-> grid,
                                   template_height |-> c.t.height,
                                   search_start_y |-> 0, top_height |-> c.top,
                                   bottom_height |-> c.bottom,
                                   sensitivity |-> c.s] :
                                    grid \in Grids(SearchGeometry(Shot(c.top),
                                                       Shot(c.bottom)).search_height
                                                   - c.t.height + 1) } :
                                c \in { [t |-> Candidates(Shot(top), Shot(bottom), s)[k],
                                         top |-> top, bottom |-> bottom, s |-> s] :
                                           k \in DOMAIN Candidates(Shot(top), Shot(bottom), s) } } :
                        top \in { 31, 60, 100, 130 }, bottom \in { 30, 60, 100, 300 },
                        s \in { 0, 60, 100 } }
        \* parse_jpeg_exif run turn by turn on the buffers extract_orientation
        \* hands to it: those that start with the SOI marker.
        LoopCalls ==
            { [fn |-> "parse_jpeg_exif", data |-> c.data] :
                c \in { e \in ExifCalls :
                          /\ e.data.usize_bits = 64
                          /\ Len(e.data.bytes) >= 2
                          /\ e.data.bytes[1] = 255 /\ e.data.bytes[2] = 216
                          /\ e.shape = "exif" =>
                                 (e.order = "II" /\ e.magic = 42 /\ e.ifd = << 0, 8 >>) } }
        \* The Smart arm of the compositing loop on one or two images of
        \* 0, 3 or 5 rows, with trims and an overlap that leave rows, take
        \* all rows or exceed the rows, and a canvas that holds what is left.
        CropCalls ==
            LET Trims == {ChromeTrim(t, b) : t \in {0, 2}, b \in {0, 1, 6}}
                Left(c) ==
                    Sum([k \in DOMAIN c.heights |->
                            SatSub(SatSub(c.heights[k],
                                          c.chrome_trims[k].top
                                            + (IF k > 1 THEN c.overlaps[k - 1] ELSE 0)),
                                   c.chrome_trims[k].bottom)])
            IN  { [fn |-> "composite_smart", heights |-> c.heights,
                   chrome_trims |-> c.chrome_trims, overlaps |-> c.overlaps,
                   output_height |-> Left(c) + c.spare] :
                    c \in { d \in [heights : SeqUpTo({0, 3, 5}, 2) \ {<< >>},
                                   chrome_trims : SeqUpTo(Trims, 2),
                                   overlaps : SeqUpTo({0, 5}, 1),
                                   spare : {0, 2}] :
                              /\ Len(d.chrome_trims) = Len(d.heights)
                              /\ Len(d.overlaps) = Len(d.heights) - 1 } }
    IN  \E c \in BlendCalls \cup ParseCalls \cup ExifCalls \cup HeightCalls
                  \cup RowCalls \cup TrimCalls \cup TargetCalls \cup MatchCalls
                  \cup LoopCalls \cup CropCalls :
            Alone(c)

\* The two row counts of one adjacent pair of proxies, with the column span
\* both of them compare.
CountCommonRows ==
    /\ call.fn = "count_common_rows"
    /\ ~ret.returned
    /\ ret' = Returned([span        |-> common_span(call.a.w, call.b.w),
                        top_rows    |-> count_common_rows_top(call.a, call.b),
                        bottom_rows |-> count_common_rows_bottom(call.a, call.b)])
    /\ UNCHANGED << merge_vars, call >>

\* compute_chrome_trims, one turn of its loop over the adjacent pairs: the
\* trims are n defaults before the first turn, and turn i writes the top of
\* image i + 1 and the bottom of image i (counted from 0).
ChromeTrimsPair ==
    /\ call.fn = "compute_chrome_trims"
    /\ ~ret.returned
    /\ i < SatSub(Len(call.images), 1)
    /\ LET n     == Len(call.images)
           trims == IF i = 0 THEN [k \in 1..n |-> ChromeTrim(0, 0)] ELSE chrome_trims
           prev  == build_proxy(call.images[i + 1])
           curr  == build_proxy(call.images[i + 2])
           top_rows    == count_common_rows_top(prev, curr)
           bottom_rows == count_common_rows_bottom(prev, curr)
           curr_px == proxy_rows_to_pixels(top_rows, call.images[i + 2].h, curr.h)
           prev_px == proxy_rows_to_pixels(bottom_rows, call.images[i + 1].h, prev.h)
       IN  chrome_trims' =
               [[trims EXCEPT ![i + 2].top = clamp_trim(curr_px, call.images[i + 2].h)]
                   EXCEPT ![i + 1].bottom = clamp_trim(prev_px, call.images[i + 1].h)]
    /\ i' = i + 1
    /\ UNCHANGED << call, ret, images_data, options, pc, images, merge_options,
                    decoded_images, decode_calls, scaled_dimensions, output_size,
                    scaled_images, scale_calls, overlaps, cand, accepted, output,
                    offset, placed, encoded, merge_result, result >>

\* compute_chrome_trims after its loop: the minimum of content is enforced,
\* the first top and the last bottom are set to 0 and the trims returned.
ChromeTrimsReturn ==
    /\ call.fn = "compute_chrome_trims"
    /\ ~ret.returned
    /\ ~(i < SatSub(Len(call.images), 1))
    /\ LET n        == Len(call.images)
           trims    == IF i = 0 THEN [k \in 1..n |-> ChromeTrim(0, 0)] ELSE chrome_trims
           enforced == [k \in 1..n |-> enforce_min_content(trims[k], call.images[k].h)]
       IN  ret' = Returned([k \in 1..n |->
                      ChromeTrim(IF k = 1 THEN 0 ELSE enforced[k].top,
                                 IF k = n THEN 0 ELSE enforced[k].bottom)])
    /\ UNCHANGED << merge_vars, call >>

ComputeTargetDimension ==
    /\ call.fn = "compute_target_dimension"
    /\ ~ret.returned
    /\ ret' = Returned(compute_target_dimension(call.dimensions, call.direction))
    /\ UNCHANGED << merge_vars, call >>

PerformMatching ==
    /\ call.fn = "perform_matching"
    /\ ~ret.returned
    /\ ret' = Returned(perform_matching(call.grid, call.template_height,
                   call.search_start_y, call.top_height, call.bottom_height,
                   OverlapConfig(call.sensitivity)))
    /\ UNCHANGED << merge_vars, call >>

\* The read position of parse_jpeg_exif: i once the loop has moved, and 2
\* (past the SOI marker) before.
ReadPosition == IF i = 0 THEN 2 ELSE i

\* One turn of the loop of parse_jpeg_exif at the read position: the
\* function returns, panics on the slice of an APP1 segment, or moves on.
ParseJpegExifStep ==
    /\ call.fn = "parse_jpeg_exif"
    /\ ~ret.returned
    /\ LET bytes == call.data.bytes
           pos   == ReadPosition
       IN  IF ~(pos + 4 <= Len(bytes)) \/ bytes[pos + 1] # 255
           THEN ret' = Returned(None) /\ i' = i
           ELSE LET marker == bytes[pos + 2]
                IN  IF marker = 255
                    THEN i' = pos + 1 /\ ret' = ret
                    ELSE IF marker = 217 \/ marker = 218
                    THEN ret' = Returned(None) /\ i' = i
                    ELSE LET length        == 256 * bytes[pos + 3] + bytes[pos + 4]
                             segment_start == pos + 4
                             segment_end   == pos + 2 + length
                             found ==
                                 IF marker = 225 /\ segment_end <= Len(bytes)
                                 THEN IF segment_start > segment_end THEN Panic
                                      ELSE parse_exif_segment(
                                               SubSeq(bytes, segment_start + 1,
                                                      segment_end),
                                               call.data.usize_bits)
                                 ELSE None
                         IN  IF found.kind = "panic"
                             THEN ret' = Panicked /\ i' = i
                             ELSE IF found.kind = "some"
                             THEN ret' = Returned(found) /\ i' = i
                             ELSE i' = pos + 2 + length /\ ret' = ret
    /\ UNCHANGED << call, images_data, options, pc, images, merge_options,
                    decoded_images, decode_calls, scaled_dimensions, output_size,
                    scaled_images, scale_calls, chrome_trims, overlaps, cand,
                    accepted, output, offset, placed, encoded, merge_result, result >>

\* merge.rs, the Smart arm of the compositing loop, on the scaled heights,
\* the trims and the overlaps of the call: image i is composited at the
\* offset, which then moves on by rendered_h.
CompositeSmartItem ==
    /\ call.fn = "composite_smart"
    /\ ~ret.returned
    /\ IF i < Len(call.heights)
       THEN LET h    == call.heights[i + 1]
                trim == call.chrome_trims[i + 1]
                overlap_from_prev == IF i > 0 THEN call.overlaps[i] ELSE 0
                crop_top    == trim.top + overlap_from_prev
                crop_bottom == trim.bottom
                rendered_h  == SatSub(SatSub(h, crop_top), crop_bottom)
            IN  /\ placed' = Append(placed,
                        [index |-> i, y |-> offset, crop_top |-> crop_top,
                         crop_bottom |-> crop_bottom,
                         written |-> composite_image_with_vertical_crop(
                                         call.output_height, h, Val(offset),
                                         crop_top, crop_bottom)])
                /\ offset' = WideAdd(offset, Wide(rendered_h))
                /\ i' = i + 1
                /\ ret' = ret
       ELSE /\ ret' = Returned(Val(offset))
            /\ UNCHANGED << i, placed, offset >>
    /\ UNCHANGED << call, images_data, options, pc, images, merge_options,
                    decoded_images, decode_calls, scaled_dimensions, output_size,
                    scaled_images, scale_calls, chrome_trims, overlaps, cand,
                    accepted, output, encoded, merge_result, result >>

NextCalls ==
    \/ Blend
    \/ ParseOptions
    \/ ExtractOrientation
    \/ BuildTemplateHeights
    \/ CountCommonRows
    \/ ChromeTrimsPair
    \/ ChromeTrimsReturn
    \/ ComputeTargetDimension
    \/ PerformMatching
    \/ ParseJpegExifStep
    \/ CompositeSmartItem

SpecCalls == InitCalls /\ [][NextCalls]_vars

(***************************************************************************)
(* SpecDetect: compute_overlaps called on its own, on images of equal and  *)
(* of different widths that no chrome trim has touched.                    *)
(***************************************************************************)
MaxDetectImages == 2

\* Images of widths 100, 90, 89 and 60 (the ratios 0.9 and 1 pass the width
\* gate, 0.89, 0.6 and 0.67 do not), at three sensitivities.
InitDetect ==
    \E imgs \in SeqUpTo({ [w |-> Wide(100), h |-> Wide(100), top |-> 0, bot |-> 0,
                            seed |-> 1],
                           [w |-> Wide(90), h |-> Wide(60), top |-> 0, bot |-> 0,
                            seed |-> 2],
                           [w |-> Wide(89), h |-> Wide(100), top |-> 10, bot |-> 0,
                            seed |-> 3],
                           [w |-> Wide(60), h |-> Wide(40), top |-> 0, bot |-> 0,
                            seed |-> 4] }, MaxDetectImages),
       s \in { 0, 35, 100 } :
        /\ call = [fn |-> "compute_overlaps"]
        /\ ret = NoReturn
        /\ images_data = << >>
        /\ options = Undefined
        /\ pc = "overlap"
        /\ i = 0
        /\ images = << >>
        /\ merge_options = [DefaultMergeOptions EXCEPT !.direction = "Smart",
                                                       !.overlap_sensitivity = s]
        /\ decoded_images = << >>
        /\ decode_calls = << >>
        /\ scaled_dimensions = << >>
        /\ output_size = << WideZero, WideZero >>
        /\ scaled_images = imgs
        /\ scale_calls = 0
        /\ chrome_trims = [k \in DOMAIN imgs |-> ChromeTrim(0, 0)]
        /\ overlaps = << >>
        /\ cand = 1
        /\ accepted = NoMatch
        /\ output = NoCanvas
        /\ offset = WideZero
        /\ placed = << >>
        /\ encoded = FALSE
        /\ merge_result = Pending
        /\ result = Pending

NextDetect == OverlapStep

SpecDetect == InitDetect /\ [][NextDetect]_vars

(***************************************************************************)
(* Properties of the planner and of the entry point, checked under Spec.   *)
(***************************************************************************)
MinOf(S) == CHOOSE m \in S : \A x \in S : m <= x

\* The exact sum of a * target / b rounded half up, over a dimension list;
\* a picks the scaled coordinate and b the one scaled to the target.
RECURSIVE ExactSum(_, _, _, _)
ExactSum(dims, a, b, target) ==
    IF dims = << >> THEN 0
    ELSE RoundDiv(dims[1][a] * target, dims[1][b]) + ExactSum(Tail(dims), a, b, target)

DecodedDimensions ==
    [k \in DOMAIN decoded_images |-> << decoded_images[k].w, decoded_images[k].h >>]

\* C1: a Vertical merge allocates a canvas whose width is the largest input
\* width and whose height is the sum over the images of
\* round_half_up(h * max_w / w), the rounding taken on the exact quotient.
C1_VerticalCanvasIsExact ==
    (output.allocated /\ merge_options.direction = "Vertical") =>
        LET max_w == MaxOf({decoded_images[k].w : k \in DOMAIN decoded_images})
        IN  /\ output.width = Wide(max_w)
            /\ output.height = Wide(ExactSum(DecodedDimensions, 2, 1, max_w))

\* C2: a Horizontal merge allocates a canvas whose height is the largest input
\* height and whose width is the sum over the images of
\* round_half_up(w * max_h / h), the rounding taken on the exact quotient.
C2_HorizontalCanvasIsExact ==
    (output.allocated /\ merge_options.direction = "Horizontal") =>
        LET max_h == MaxOf({decoded_images[k].h : k \in DOMAIN decoded_images})
        IN  /\ output.height = Wide(max_h)
            /\ output.width = Wide(ExactSum(DecodedDimensions, 1, 2, max_h))

\* The indices (from 0) of the elements that are no byte buffers, and of the
\* byte buffers no decoder accepts.
NonBuffers == {k \in 0..(Len(images_data) - 1) : images_data[k + 1].kind = "other"}

Undecodable == {k \in 0..(Len(images_data) - 1) : images_data[k + 1].kind = "garbage"}

\* C3: validation precedes decoding.  An empty array is answered with
\* NO_IMAGES and an array holding an element that is no byte buffer with
\* INVALID_INPUT and the smallest index of such an element; in both cases
\* decode_image is never called, whatever stands at the lower indices.
C3_ValidationBeforeDecoding ==
    /\ (Len(images_data) = 0 \/ NonBuffers # {}) => decode_calls = << >>
    /\ (pc = "done" /\ Len(images_data) = 0) =>
           /\ result.tag = "err"
           /\ result.obj.code = "NO_IMAGES"
    /\ (pc = "done" /\ NonBuffers # {}) =>
           /\ result.tag = "err"
           /\ result.obj.code = "INVALID_INPUT"
           /\ "fileIndex" \in DOMAIN result.obj
           /\ result.obj.fileIndex = MinOf(NonBuffers)

\* C3 witness: the call has returned INVALID_INPUT for index 1 although
\* index 0 holds bytes no decoder accepts.
C3_Witness ==
    /\ pc = "done"
    /\ Len(images_data) = 2
    /\ images_data[1].kind = "garbage"
    /\ images_data[2].kind = "other"
    /\ result.tag = "err"
    /\ result.obj.code = "INVALID_INPUT"
    /\ result.obj.fileIndex = 1
    /\ decode_calls = << >>

\* C4: when every element is a byte buffer and some buffer is undecodable,
\* merge returns DecodeError with the smallest undecodable index (reported
\* as DECODE_FAILED with that fileIndex), decode_image is called for no
\* higher index, and nothing is scaled, composited or encoded.
C4_FirstDecodeFailureStops ==
    (NonBuffers = {} /\ Undecodable # {}) =>
        /\ \A j \in DOMAIN decode_calls : decode_calls[j] <= MinOf(Undecodable)
        /\ scale_calls = 0
        /\ ~output.allocated
        /\ placed = << >>
        /\ ~encoded
        /\ merge_result.tag # "ok"
        /\ merge_result.tag = "err" =>
               /\ merge_result.error.kind = "DecodeError"
               /\ merge_result.error.index = MinOf(Undecodable)
        /\ pc = "done" =>
               /\ result.tag = "err"
               /\ result.obj.code = "DECODE_FAILED"
               /\ result.obj.fileIndex = MinOf(Undecodable)

\* C4 witness: index 0 failed to decode, the decodable buffer at index 1 was
\* never handed to the decoder, and the call has returned.
C4_Witness ==
    /\ pc = "done"
    /\ Len(images_data) = 2
    /\ images_data[1].kind = "garbage"
    /\ images_data[2].kind = "image"
    /\ decode_calls = << 0 >>
    /\ result.tag = "err"
    /\ result.obj.code = "DECODE_FAILED"
    /\ result.obj.fileIndex = 0

(***************************************************************************)
(* The size check of the planner, checked under SpecWide.                  *)
(***************************************************************************)
\* Whether Plan has run on a fully decoded input.
PlanDone ==
    /\ Len(images_data) > 0
    /\ Len(decoded_images) = Len(images_data)
    /\ pc \notin {"start", "validate", "merge", "decode", "plan"}

RECURSIVE WideTotal(_)
WideTotal(values) ==
    IF values = << >> THEN WideZero
    ELSE WideAdd(Head(values), WideTotal(Tail(values)))

RECURSIVE WideLargest(_)
WideLargest(values) ==
    IF values = << >> THEN WideZero
    ELSE WideMax(Head(values), WideLargest(Tail(values)))

\* The planned output size: the exact sum, or the maximum, of the scaled
\* dimensions of the decoded images.
PlannedSize ==
    LET direction == merge_options.direction
        target    == compute_target_dimension(DecodedDimensions, direction)
        scaled    == [k \in DOMAIN decoded_images |->
                         compute_scaled_dimensions(decoded_images[k].w,
                             decoded_images[k].h, target, direction)]
        widths    == [k \in DOMAIN scaled |-> scaled[k][1]]
        heights   == [k \in DOMAIN scaled |-> scaled[k][2]]
    IN  IF direction = "Horizontal"
        THEN << WideTotal(widths), WideLargest(heights) >>
        ELSE << WideLargest(widths), WideTotal(heights) >>

PlannedSizeTooBig ==
    WideLess(U32_MAX, PlannedSize[1]) \/ WideLess(U32_MAX, PlannedSize[2])

\* C5: when the planned output width or height exceeds u32::MAX, merge
\* returns an error whose code is INTERNAL_ERROR, and it does so before any
\* image is scaled and before the canvas is allocated; otherwise the canvas
\* is allocated with exactly the planned width.
C5_PlannedSizeGuard ==
    PlanDone =>
        IF PlannedSizeTooBig
        THEN /\ merge_result.tag = "err"
             /\ code(merge_result.error) = "INTERNAL_ERROR"
             /\ scale_calls = 0
             /\ ~output.allocated
             /\ pc = "done" => (result.tag = "err" /\ result.obj.code = "INTERNAL_ERROR")
        ELSE /\ output.allocated => output.width = PlannedSize[1]
             /\ pc \in {"composite", "encode", "return", "done"} => output.allocated

\* C5 witness: a call whose planned size passes u32::MAX has returned
\* INTERNAL_ERROR.
C5_Witness ==
    /\ pc = "done"
    /\ PlanDone
    /\ PlannedSizeTooBig
    /\ result.tag = "err"
    /\ result.obj.code = "INTERNAL_ERROR"
    /\ scale_calls = 0

(***************************************************************************)
(* The error record, checked under SpecErr.                                *)
(***************************************************************************)
\* C6: the record thrown for a TooLarge error carries width, height, pixels
\* and max beside code and message, as the record thrown for a DecodeError
\* carries fileIndex.
C6_TooLargeRecordHasDetails ==
    (pc = "done" /\ merge_result.tag = "err") =>
        /\ merge_result.error.kind = "DecodeError" =>
               /\ "fileIndex" \in DOMAIN result.obj
               /\ result.obj.fileIndex = merge_result.error.index
        /\ merge_result.error.kind = "TooLarge" =>
               /\ {"code", "message", "width", "height", "pixels", "max"}
                      \subseteq DOMAIN result.obj
               /\ result.obj.code = "TOO_LARGE"
               /\ result.obj.width = merge_result.error.width
               /\ result.obj.height = merge_result.error.height
               /\ result.obj.pixels = merge_result.error.pixels
               /\ result.obj.max = merge_result.error.max

(***************************************************************************)
(* The chrome trims and the overlaps, checked under SpecSmart.             *)
(***************************************************************************)
\* Whether compute_chrome_trims has run in a Smart call.
ChromeDone ==
    /\ merge_options.direction = "Smart"
    /\ scaled_images # << >>
    /\ pc \in {"overlap", "height", "canvas", "composite", "encode", "return", "done"}

ScaledHeight(k) == Val(scaled_images[k].h)

\* C7: compute_chrome_trims returns one trim per image, in the order of the
\* images: the first trim has top = 0 and the last has bottom = 0.
C7_OneTrimPerImage ==
    ChromeDone =>
        /\ Len(chrome_trims) = Len(scaled_images)
        /\ chrome_trims[1].top = 0
        /\ chrome_trims[Len(chrome_trims)].bottom = 0

\* C7 witness: three or more images, the inner ones trimmed at both ends and
\* the outer ones at their inner end.
C7_Witness ==
    /\ ChromeDone
    /\ Len(chrome_trims) >= 3
    /\ chrome_trims[1].bottom > 0
    /\ chrome_trims[Len(chrome_trims)].top > 0
    /\ \A k \in 2..(Len(chrome_trims) - 1) :
           chrome_trims[k].top > 0 /\ chrome_trims[k].bottom > 0

\* C8: every trim leaves MIN_CONTENT_PX rows (top + bottom <= height - 50)
\* or is (0, 0); for an image lower than 50 rows it is (0, 0).
C8_MinimumContent ==
    ChromeDone =>
        \A k \in DOMAIN chrome_trims :
            /\ \/ chrome_trims[k].top + chrome_trims[k].bottom <= ScaledHeight(k) - 50
               \/ chrome_trims[k].top = 0 /\ chrome_trims[k].bottom = 0
            /\ ScaledHeight(k) < 50 =>
                   chrome_trims[k].top = 0 /\ chrome_trims[k].bottom = 0

\* The trims of the scaled images before enforce_min_content.
RawTrims == PairTrims([k \in DOMAIN scaled_images |-> Narrow(scaled_images[k])])

\* C8 witness: an image of 50 rows or more and an image of fewer than 50
\* rows have both lost a trim that the pair loop had measured.
C8_Witness ==
    /\ ChromeDone
    /\ pc = "overlap"
    /\ \E k \in DOMAIN chrome_trims :
           /\ ScaledHeight(k) >= 50
           /\ RawTrims[k].top + RawTrims[k].bottom > ScaledHeight(k) - 50
           /\ chrome_trims[k] = ChromeTrim(0, 0)
    /\ \E k \in DOMAIN chrome_trims :
           /\ ScaledHeight(k) < 50
           /\ RawTrims[k].top + RawTrims[k].bottom > 0
           /\ chrome_trims[k] = ChromeTrim(0, 0)

\* The result positions outside the exclusion zone of a match.
OutsideExclusion(m) ==
    {y \in 0..(m.grid.rows - 1) :
        Abs(y - m.grid.by) > Max(m.template.height \div 4, 2)}

\* The three gates of an accepted match.
GatesPassed(m) ==
    /\ m.grid.best.fin
    /\ m.grid.best.v >= m.config.match_threshold
    /\ \A y \in OutsideExclusion(m) :
           m.grid.best.v - GridValue(m.grid, y) >= m.config.ambiguity_gap
    /\ m.top_h - m.grid.by >= 5
    /\ m.top_h - m.grid.by <= m.bottom_h

\* C9: a match is accepted only if its best score is finite and at least
\* match_threshold, exceeds the second-best score by ambiguity_gap, and its
\* overlap top.height - by lies in [5, bottom.height]; otherwise 0 is
\* recorded.  So each of the N - 1 recorded overlaps is 0 or lies between 5
\* and the height of the lower image.
C9_OverlapGates ==
    ChromeDone =>
        /\ \A p \in DOMAIN overlaps :
               \/ overlaps[p] = 0
               \/ 5 <= overlaps[p] /\ overlaps[p] <= ScaledHeight(p + 1)
        /\ accepted.made =>
               /\ GatesPassed(accepted)
               /\ overlaps[accepted.pair] = accepted.top_h - accepted.grid.by
        /\ (pc = "overlap" /\ cand = 1 /\ overlaps # << >>) =>
               (overlaps[Len(overlaps)] # 0
                    <=> (accepted.made /\ accepted.pair = Len(overlaps)))
        /\ pc # "overlap" => Len(overlaps) = Len(scaled_images) - 1

\* C9 witness: a match was accepted although a score outside the exclusion
\* zone came within 0.5 of the threshold's scale, and its overlap is recorded.
C9_Witness ==
    /\ ChromeDone
    /\ accepted.made
    /\ OutsideExclusion(accepted) # {}
    /\ accepted.grid.y2 \in OutsideExclusion(accepted)
    /\ overlaps[accepted.pair] >= 5

RECURSIVE ContentRows(_)
ContentRows(k) ==
    IF k = 0 THEN 0
    ELSE ScaledHeight(k) - chrome_trims[k].top - chrome_trims[k].bottom
         + ContentRows(k - 1)

\* C10: in a Smart run the overlaps sum to no more than the scaled heights
\* less their chrome trims.
C10_OverlapsFitContent ==
    ChromeDone => Sum(overlaps) <= ContentRows(Len(scaled_images))

\* C10 witness: four images, the inner ones trimmed at both ends, with an
\* overlap recorded for each of the three pairs.
C10_Witness ==
    /\ ChromeDone
    /\ pc = "height"
    /\ Len(scaled_images) = 4
    /\ \A k \in 2..3 : chrome_trims[k].top > 0 /\ chrome_trims[k].bottom > 0
    /\ \A p \in 1..3 : overlaps[p] > 0

(***************************************************************************)
(* A single image, checked under Spec.                                     *)
(***************************************************************************)
\* A call with one decodable image and a direction that parses to
\* Vertical (also when the options are left out) or Horizontal.
SingleImageCall ==
    /\ Len(images_data) = 1
    /\ Decodable(images_data[1])
    /\ parse_options(options).direction \in {"Vertical", "Horizontal"}

\* The picture a buffer decodes to, turned as its EXIF orientation says.
Normalized(data) == normalize_orientation(decode_image(data), extract_orientation(data))

\* C14: merging one decodable image of size (w, h), Vertical, Horizontal or
\* with the options left out, succeeds with an output of exactly (w, h):
\* no step of merge before the PNG encoder fails, the canvas is (w, h), and
\* what is handed back once the encoder has written is of that size.
C14_SingleImageKeepsSize ==
    SingleImageCall =>
        /\ merge_result.tag = "err" => (encoded /\ code(merge_result.error) = "INTERNAL_ERROR")
        /\ result.tag = "err" => (encoded /\ result.obj.code = "INTERNAL_ERROR")
        /\ output.allocated =>
               /\ output.width = Wide(Normalized(images_data[1]).w)
               /\ output.height = Wide(Normalized(images_data[1]).h)
        /\ (pc = "done" /\ merge_result = Ok) =>
               result = [tag |-> "ok", width |-> Wide(Normalized(images_data[1]).w),
                         height |-> Wide(Normalized(images_data[1]).h)]
        /\ pc \in {"return", "done"} => output.allocated

\* C14 witness: a Horizontal call with one image higher than wide has
\* returned an output of the image's size.
C14_Witness ==
    /\ SingleImageCall
    /\ merge_options.direction = "Horizontal"
    /\ pc = "done"
    /\ result.tag = "ok"
    /\ Val(result.width) < Val(result.height)
    /\ Val(result.height) = 27

(***************************************************************************)
(* The canvas of a Smart run, checked under SpecSmart.                     *)
(***************************************************************************)
\* The rows written by the k-th composite call of a Smart run.
Written(k) ==
    composite_image_with_vertical_crop(Val(output.height),
        Val(scaled_images[placed[k].index + 1].h), Val(placed[k].y),
        placed[k].crop_top, placed[k].crop_bottom)

SmartComposited ==
    /\ merge_options.direction = "Smart"
    /\ output.allocated
    /\ pc \in {"encode", "return", "done"}

\* C11: in a Smart run the compositor writes exactly output_height distinct
\* rows: the rendered heights max(0, h - crop_top - crop_bottom), with
\* crop_top = top trim + previous overlap and crop_bottom = bottom trim, sum
\* to the canvas height; no source row is clipped by the canvas and no
\* canvas row stays unwritten.
C11_SmartRowsFillCanvas ==
    (merge_options.direction = "Smart" /\ output.allocated) =>
        /\ \A k \in DOMAIN placed :
               /\ placed[k].crop_top =
                      chrome_trims[k].top + (IF k > 1 THEN overlaps[k - 1] ELSE 0)
               /\ placed[k].crop_bottom = chrome_trims[k].bottom
               /\ Cardinality(Written(k).rows) = Written(k).kept
               /\ Written(k).kept =
                      Max(0, ScaledHeight(k) - placed[k].crop_top
                                 - placed[k].crop_bottom)
               /\ \A j \in DOMAIN placed :
                      j # k => Written(j).rows \cap Written(k).rows = {}
        /\ SmartComposited =>
               /\ Len(placed) = Len(scaled_images)
               /\ Sum([k \in DOMAIN placed |-> Written(k).kept]) = Val(output.height)
               /\ UNION {Written(k).rows : k \in DOMAIN placed}
                      = 0..(Val(output.height) - 1)

\* C11 witness: three or more images composited, with a trim at both ends
\* of an inner image and an overlap removed at every seam.
C11_Witness ==
    /\ SmartComposited
    /\ Len(placed) >= 3
    /\ chrome_trims[2].top > 0 /\ chrome_trims[2].bottom > 0
    /\ \A p \in DOMAIN overlaps : overlaps[p] > 0

\* C12: a Smart canvas is as wide as the widest image, and as high as the
\* Vertical height of the same images less the top trims, less the bottom
\* trims, less the overlaps, each subtraction saturating at 0; the trims
\* are those left by enforce_min_content and by the zeroing of the first
\* top and the last bottom.
C12_SmartCanvasSize ==
    (merge_options.direction = "Smart" /\ output.allocated) =>
        LET final == chrome_trims
            vertical_height == Sum([k \in DOMAIN scaled_images |-> ScaledHeight(k)])
        IN  /\ Val(output.width) =
                   MaxOf({decoded_images[k].w : k \in DOMAIN decoded_images})
            /\ Val(output.height) =
                   SatSub(SatSub(SatSub(vertical_height,
                                        Sum([k \in DOMAIN final |-> final[k].top])),
                                 Sum([k \in DOMAIN final |-> final[k].bottom])),
                          Sum(overlaps))

\* C12 witness: a canvas was allocated for images of which one lost the
\* trim the pair loop had measured, and another kept its trim.
C12_Witness ==
    /\ merge_options.direction = "Smart"
    /\ output.allocated
    /\ \E k \in DOMAIN chrome_trims :
           RawTrims[k].top + RawTrims[k].bottom > 0 /\ chrome_trims[k] = ChromeTrim(0, 0)
    /\ \E k \in DOMAIN chrome_trims : chrome_trims[k].top > 0
    /\ Sum(overlaps) > 0

\* A Smart call in which no trim and no overlap was found.
PlainConcatenation ==
    /\ merge_options.direction = "Smart"
    /\ output.allocated
    /\ \A k \in DOMAIN chrome_trims : chrome_trims[k] = ChromeTrim(0, 0)
    /\ \A p \in DOMAIN overlaps : overlaps[p] = 0

\* The sum of the scaled heights of the images before the k-th.
RECURSIVE HeightsBefore(_)
HeightsBefore(k) == IF k <= 1 THEN 0 ELSE ScaledHeight(k - 1) + HeightsBefore(k - 1)

\* C18: the chrome-strip and overlap steps have no error outcome, and a
\* Smart call in which every trim and every overlap is 0 gets the canvas
\* and the placements of the Vertical call on the same images: width
\* max(w), height the sum of the scaled heights, image k pasted whole at
\* x = (output_width - w) / 2 and y = the sum of the heights before it.
C18_SmartDegradesToVertical ==
    /\ ChromeDone =>
           /\ Len(chrome_trims) = Len(scaled_images)
           /\ merge_result.tag = "err" => encoded
           /\ pc \in {"return", "done"} => encoded
    /\ PlainConcatenation =>
           /\ Val(output.width) =
                  MaxOf({decoded_images[k].w : k \in DOMAIN decoded_images})
           /\ Val(output.height) = HeightsBefore(Len(scaled_images) + 1)
           /\ \A k \in DOMAIN placed :
                  /\ placed[k] =
                         Placement(k - 1,
                                   WideHalf(WideSub(output.width,
                                                    scaled_dimensions[k][1])),
                                   Wide(HeightsBefore(k)), 0, 0)
                  /\ Written(k).rows =
                         HeightsBefore(k)..(HeightsBefore(k) + ScaledHeight(k) - 1)

\* C18 witness: three images composited in a Smart call that found no
\* trim and no overlap, although the pair loop had measured common rows.
C18_Witness ==
    /\ PlainConcatenation
    /\ pc = "encode"
    /\ Len(placed) = 3
    /\ \E k \in DOMAIN chrome_trims : RawTrims[k].top + RawTrims[k].bottom > 0

(***************************************************************************)
(* Functions called on their own, checked under SpecCalls.                 *)
(***************************************************************************)
\* C13: blend_with_background returns the background colour, all four
\* channels, for a source pixel of alpha 0, and the source pixel itself for
\* a source pixel of alpha 255.
C13_BlendEndpoints ==
    (call.fn = "blend_with_background" /\ ret.returned) =>
        /\ call.pixel[4] = 0 =>
               ret.value = << call.background.r, call.background.g,
                              call.background.b, call.background.a >>
        /\ call.pixel[4] = 255 => ret.value = call.pixel

\* C13 witness: an opaque pixel came back unchanged over a background of
\* another colour and another alpha.
C13_Witness ==
    /\ call.fn = "blend_with_background"
    /\ ret.returned
    /\ call.pixel[4] = 255
    /\ call.background.a # 255
    /\ call.pixel[1] # call.background.r
    /\ ret.value = call.pixel

\* The integer nearest to n / 10, the one further from 0 of two equally near.
NearestToTenths(n) ==
    CHOOSE r \in -1000..1000 :
        IF n >= 0 THEN 10 * r - 5 <= n /\ n < 10 * r + 5
        ELSE 10 * r - 5 < n /\ n <= 10 * r + 5

\* The property p of the options value of a parse_options call.
Given(p) ==
    IF call.options.t = "object"
    THEN (CASE p = "direction" -> call.options.direction
            [] p = "background" -> call.options.background
            [] OTHER -> call.options.overlapSensitivity)
    ELSE Undefined

\* The channel c of the background given to a parse_options call.
GivenChannel(c) ==
    IF Given("background").t = "object"
    THEN (CASE c = "r" -> Given("background").r
            [] c = "g" -> Given("background").g
            [] c = "b" -> Given("background").b
            [] OTHER -> Given("background").a)
    ELSE Undefined

ParsedChannel(c) ==
    CASE c = "r" -> ret.value.background.r
      [] c = "g" -> ret.value.background.g
      [] c = "b" -> ret.value.background.b
      [] OTHER -> ret.value.background.a

\* C15: parse_options rejects no value.  overlapSensitivity becomes
\* clamp(round(v), 0, 100) for a finite number v and 35 when it is missing,
\* null, no number or not finite; each background channel becomes a value in
\* 0..255, 255 when it is missing or not finite; every direction other
\* than "horizontal" and "smart" becomes Vertical.
C15_OptionsAreCoerced ==
    (call.fn = "parse_options" /\ ret.returned) =>
        /\ ~ret.panicked
        /\ DOMAIN ret.value = {"direction", "background", "overlap_sensitivity"}
        /\ LET s == Given("overlapSensitivity")
           IN  ret.value.overlap_sensitivity =
                   IF s.t = "number" /\ s.finite
                   THEN Clamp(NearestToTenths(s.n), 0, 100)
                   ELSE 35
        /\ \A c \in {"r", "g", "b", "a"} :
               /\ ParsedChannel(c) \in 0..255
               /\ (GivenChannel(c).t # "number" \/ ~GivenChannel(c).finite) =>
                      ParsedChannel(c) = 255
               /\ (GivenChannel(c).t = "number" /\ GivenChannel(c).finite) =>
                      /\ 10 * ParsedChannel(c) <= Clamp(GivenChannel(c).n, 0, 2550)
                      /\ Clamp(GivenChannel(c).n, 0, 2550) < 10 * ParsedChannel(c) + 10
        /\ LET d == Given("direction")
           IN  ret.value.direction =
                   IF d.t = "string" /\ d.s = "horizontal" THEN "Horizontal"
                   ELSE IF d.t = "string" /\ d.s = "smart" THEN "Smart"
                   ELSE "Vertical"

\* C15 witness: an options object with a fractional sensitivity that rounds
\* up, a channel that is not finite and a direction of the wrong type.
C15_Witness ==
    /\ call.fn = "parse_options"
    /\ ret.returned
    /\ call.options.t = "object"
    /\ call.options.overlapSensitivity = Num(355)
    /\ ret.value.overlap_sensitivity = 36
    /\ call.options.background.t = "object"
    /\ call.options.background.r = NaN
    /\ call.options.direction = Num(10)

\* C16: extract_orientation is total.  For every byte sequence it returns
\* one of the eight orientations without a panic; it returns Normal when the
\* bytes do not start with the JPEG SOI marker, when the parsing of a
\* segment or of the TIFF data fails (also for an APP1 segment whose
\* declared length is shorter than the length field), and when the value of
\* the orientation tag is outside 1..8.
C16_ExtractOrientationTotal ==
    (call.fn = "extract_orientation" /\ ret.returned) =>
        /\ ~ret.panicked
        /\ ret.value \in 1..8
        /\ (Len(call.data.bytes) < 2 \/ SubSeq(call.data.bytes, 1, 2) # << 255, 216 >>)
               => ret.value = 1
        /\ call.shape = "exif" =>
               /\ call.declared < 2 => ret.value = 1
               /\ (~call.head_ok \/ call.order = "XX" \/ call.magic # 42) => ret.value = 1
               /\ call.tag_value \notin 1..8 => ret.value = 1

\* The rest of C16, for the calls that do not panic: the orientation found
\* is the tag's when the segment is whole and well formed, and Normal in
\* every other case.
ExtractOrientationWhenReturning ==
    (call.fn = "extract_orientation" /\ ret.returned /\ ~ret.panicked) =>
        /\ ret.value \in 1..8
        /\ (Len(call.data.bytes) < 2 \/ SubSeq(call.data.bytes, 1, 2) # << 255, 216 >>)
               => ret.value = 1
        /\ call.shape = "exif" =>
               ret.value =
                   IF /\ call.declared = 42 /\ call.head_ok /\ call.order # "XX"
                      /\ call.magic = 42 /\ call.ifd = << 0, 8 >>
                      /\ call.tag_value \in 1..8
                   THEN call.tag_value
                   ELSE 1

(***************************************************************************)
(* The overlap detector called on its own, checked under SpecDetect.       *)
(***************************************************************************)
\* Whether the widths of the images p and p + 1 are in a ratio below 0.9.
TooDifferentWidths(p) ==
    LET a == Val(scaled_images[p].w)
        b == Val(scaled_images[p + 1].w)
    IN  10 * Min(a, b) < 9 * Max(a, b)

TemplateHeightOrder ==
        LET heights == ret.value
            below   == {k \in DOMAIN heights : heights[k] < call.base}
            above   == {k \in DOMAIN heights : heights[k] > call.base}
        IN  /\ ~ret.panicked
            /\ Len(heights) >= 1
            /\ heights[1] = call.base
            /\ Len(heights) <= (call.max_height - call.min_height) \div 40 + 1
            /\ \A j, k \in DOMAIN heights : j # k => heights[j] # heights[k]
            /\ \A k \in DOMAIN heights :
                   /\ call.min_height <= heights[k]
                   /\ heights[k] <= call.max_height
                   /\ (heights[k] - call.base) % 40 = 0
            /\ \A j, k \in below : j < k => heights[j] > heights[k]
            /\ \A j, k \in above : j < k => heights[j] < heights[k]
            /\ IF call.sensitivity >= 50
               THEN \A j \in below, k \in above : j < k
               ELSE \A j \in below, k \in above : k < j

TemplateHeightOrderAboveZero ==
    (call.fn = "build_template_heights" /\ ret.returned /\ call.min_height > 0)
        => TemplateHeightOrder

\* The templates of the pair whose overlap is being detected.
PairTemplates ==
    Candidates(OverlapSource(scaled_images, chrome_trims, Len(overlaps) + 1),
               OverlapSource(scaled_images, chrome_trims, Len(overlaps) + 2),
               merge_options.overlap_sensitivity)

\* The templates starting at 0% all come before those starting at 2%.
StartsInOrder(templates, bottom_h) ==
    /\ \A k \in DOMAIN templates :
           templates[k].start_y \in {0, (2 * bottom_h) \div 100}
    /\ \A j, k \in DOMAIN templates :
           j < k => templates[j].start_y <= templates[k].start_y

\* C20: detect_overlap examines its candidates one after the other, every
\* template height of start 0% before every template height of start 2%.
\* A candidate that is skipped or fails a gate moves the search to the next
\* candidate and records nothing; the first candidate whose template passes
\* the variance gate and whose match passes every gate gives the pair's
\* result; no overlap (0) is recorded only once every candidate of both
\* starts has been gone through.
C20_SearchOrder ==
    [][(pc = "overlap" /\ Len(overlaps) + 1 < Len(scaled_images)) =>
          LET templates == PairTemplates
              bottom    == OverlapSource(scaled_images, chrome_trims, Len(overlaps) + 2)
          IN  /\ StartsInOrder(templates, bottom.h)
              /\ \/ /\ cand <= Len(templates)
                    /\ ~accepted'.made
                    /\ overlaps' = overlaps
                    /\ cand' = cand + 1
                 \/ /\ cand <= Len(templates)
                    /\ accepted'.made
                    /\ accepted'.template = templates[cand]
                    /\ accepted'.variance >= accepted'.config.min_template_variance
                    /\ GatesPassed(accepted')
                    /\ overlaps' = Append(overlaps, accepted'.top_h - accepted'.grid.by)
                    /\ cand' = 1
                 \/ /\ cand = Len(templates) + 1
                    /\ ~accepted'.made
                    /\ overlaps' = Append(overlaps, 0)
                    /\ cand' = 1]_vars

\* C20 witness: a match was accepted for a template of the second start,
\* which is tried only after every template of the first start has failed.
C20_Witness ==
    /\ accepted.made
    /\ accepted.template.start_y > 0
    /\ overlaps # << >>
    /\ overlaps[accepted.pair] > 0

\* What C21 says of the span and the row counts of a pair, for a margin of
\* the given size.
SpanWithMargin(margin) ==
    LET W == Min(call.a.w, call.b.w)
    IN  /\ ret.value.span = << margin, W - 2 * margin >>
        /\ ret.value.span[2] = 0 =>
               (ret.value.top_rows = 0 /\ ret.value.bottom_rows = 0)

\* C21: for a pair of proxies with W = min(prev.w, curr.w) the compared
\* columns start at x = round(W * 0.025) and number W - 2 * round(W * 0.025),
\* and when that number is 0 both row counts are 0.
C21_SpanMarginRounded ==
    (call.fn = "count_common_rows" /\ ret.returned) =>
        SpanWithMargin((Min(call.a.w, call.b.w) * 25 + 500) \div 1000)

\* C21 as amended: the margin is W * 0.025 truncated to an integer: the
\* compared columns start at x = floor(W * 0.025) and number
\* W - 2 * floor(W * 0.025), and when that number is 0 both row counts are 0.
C21_SpanMarginTruncated ==
    (call.fn = "count_common_rows" /\ ret.returned) =>
        SpanWithMargin((Min(call.a.w, call.b.w) * 25) \div 1000)

\* C21 witness: proxies 39 and 80 columns wide were compared over all 39
\* columns, and their bars gave common rows at the top.
C21_Witness ==
    /\ call.fn = "count_common_rows"
    /\ ret.returned
    /\ Min(call.a.w, call.b.w) = 39
    /\ ret.value.span = << 0, 39 >>
    /\ ret.value.top_rows > 0

\* min(240, round(0.20 * h), h)
TrimCap(h) == MinOf({240, (20 * h + 50) \div 100, h})

\* C22: every top and bottom trim that compute_chrome_trims returns for an
\* image of height h is at most min(240, round(0.20 * h), h), however many
\* similar rows were counted.
C22_TrimsAreCapped ==
    ChromeDone =>
        \A k \in DOMAIN chrome_trims :
            /\ chrome_trims[k].top <= TrimCap(ScaledHeight(k))
            /\ chrome_trims[k].bottom <= TrimCap(ScaledHeight(k))

\* C22 witness: more similar rows were counted at the bottom of a pair than
\* the cap of the upper image allows, and its bottom trim is the cap.
C22_Witness ==
    /\ ChromeDone
    /\ pc = "overlap"
    /\ overlaps = << >>
    /\ \E k \in 1..(Len(chrome_trims) - 1) :
           /\ chrome_trims[k].bottom = TrimCap(ScaledHeight(k))
           /\ proxy_rows_to_pixels(
                  count_common_rows_bottom(build_proxy(Narrow(scaled_images[k])),
                                           build_proxy(Narrow(scaled_images[k + 1]))),
                  ScaledHeight(k), build_proxy(Narrow(scaled_images[k])).h)
                  > TrimCap(ScaledHeight(k))

\* Whether n is the length of the longest run of similar rows of the
\* proxies a and b that starts at row 0 of both (from_top) or at the last
\* row of each, within the height of the lower proxy.
MaximalRun(n, a, b, from_top) ==
    LET span     == common_span(a.w, b.w)
        max_rows == Min(a.h, b.h)
        Similar(y) == IF from_top THEN rows_similar(a, b, span[1], span[2], y, y)
                      ELSE rows_similar(a, b, span[1], span[2], a.h - 1 - y, b.h - 1 - y)
    IN  /\ n \in 0..max_rows
        /\ \A y \in 0..(n - 1) : Similar(y)
        /\ n < max_rows => ~Similar(n)

\* The trims before a turn of the loop of compute_chrome_trims.
TrimsBefore ==
    IF i = 0 THEN [k \in DOMAIN call.images |-> ChromeTrim(0, 0)] ELSE chrome_trims

\* C23: for the adjacent pair (i, i + 1) the top count is the length of the
\* longest run of similar rows from row 0 of both proxies and the bottom
\* count that of the longest run from the last row of each, both at most the
\* height of the lower proxy; the top count gives the top trim of image
\* i + 1, the bottom count the bottom trim of image i, and the turn of the
\* loop changes no other trim.
C23_PairCountsAndFrame ==
    [][(call.fn = "compute_chrome_trims" /\ i' = i + 1) =>
          LET prev == build_proxy(call.images[i + 1])
              curr == build_proxy(call.images[i + 2])
          IN  /\ \E n \in 0..Min(prev.h, curr.h) :
                     /\ MaximalRun(n, prev, curr, TRUE)
                     /\ chrome_trims'[i + 2].top =
                            clamp_trim(proxy_rows_to_pixels(n, call.images[i + 2].h,
                                                            curr.h),
                                       call.images[i + 2].h)
              /\ \E n \in 0..Min(prev.h, curr.h) :
                     /\ MaximalRun(n, prev, curr, FALSE)
                     /\ chrome_trims'[i + 1].bottom =
                            clamp_trim(proxy_rows_to_pixels(n, call.images[i + 1].h,
                                                            prev.h),
                                       call.images[i + 1].h)
              /\ DOMAIN chrome_trims' = DOMAIN call.images
              /\ \A k \in DOMAIN call.images :
                     /\ k # i + 2 => chrome_trims'[k].top = TrimsBefore[k].top
                     /\ k # i + 1 => chrome_trims'[k].bottom = TrimsBefore[k].bottom]_vars

\* The loop run turn by turn returns what compute_chrome_trims is taken to
\* return in a merge.
ChromeTrimsLoopAgrees ==
    (call.fn = "compute_chrome_trims" /\ ret.returned) =>
        ret.value = compute_chrome_trims(call.images)

\* C23 witness: the second turn of the loop has run on three screenshots;
\* it set the bottom trim of the middle one and the top trim of the last
\* one, and the trims of the first turn are still there.
C23_Witness ==
    /\ call.fn = "compute_chrome_trims"
    /\ Len(call.images) = 3
    /\ i = 2
    /\ chrome_trims[1].bottom > 0
    /\ chrome_trims[2].top > 0
    /\ chrome_trims[2].bottom > 0
    /\ chrome_trims[3].top > 0
    /\ chrome_trims[2].top # chrome_trims[3].top

\* The columns and rows written by the k-th composite call of a Vertical run.
VerticalWritten(k) ==
    composite_image(Val(output.width), Val(output.height),
                    Val(scaled_images[k].w), Val(scaled_images[k].h),
                    Val(placed[k].x), Val(placed[k].y))

\* C24: in a Vertical run image i is pasted at x = (output.w - w_i) / 2 and
\* at y = the sum of the scaled heights of the images before it; the images
\* fill, in input order, consecutive disjoint bands of rows that together
\* are the rows 0 .. output.h - 1, and no pixel falls outside the canvas.
C24_VerticalBands ==
    (merge_options.direction = "Vertical" /\ output.allocated) =>
        /\ \A k \in DOMAIN placed :
               LET written == VerticalWritten(k)
               IN  /\ placed[k].index = k - 1
                   /\ Val(placed[k].x) =
                          (Val(output.width) - Val(scaled_images[k].w)) \div 2
                   /\ Val(placed[k].y) = HeightsBefore(k)
                   /\ ~written.skipped
                   /\ written.cols \subseteq 0..(Val(output.width) - 1)
                   /\ written.rows =
                          HeightsBefore(k)..(HeightsBefore(k) + ScaledHeight(k) - 1)
                   /\ written.rows \subseteq 0..(Val(output.height) - 1)
                   /\ \A j \in 1..(k - 1) :
                          \A y \in VerticalWritten(j).rows : \A z \in written.rows : y < z
        /\ pc \in {"encode", "return", "done"} =>
               /\ Len(placed) = Len(scaled_images)
               /\ UNION {VerticalWritten(k).rows : k \in DOMAIN placed}
                      = 0..(Val(output.height) - 1)

\* C24 witness: a Vertical run has composited two images of different
\* widths, the second below the first, each more than one row high.
C24_Witness ==
    /\ merge_options.direction = "Vertical"
    /\ output.allocated
    /\ pc = "encode"
    /\ Len(placed) = 2
    /\ decoded_images[1].w # decoded_images[2].w
    /\ Val(placed[2].y) > 1
    /\ ScaledHeight(2) > 1

\* C25: compute_target_dimension returns 0 only for the empty list: for
\* every list of sizes that is not empty the target is positive, so that the
\* NoImages error merge raises for a target of 0 stands for an empty list.
C25_TargetZeroOnlyWhenEmpty ==
    (call.fn = "compute_target_dimension" /\ ret.returned) =>
        /\ ~ret.panicked
        /\ ret.value = 0 <=> call.dimensions = << >>
        /\ call.dimensions # << >> => ret.value > 0

\* The target is 0 exactly for the empty list and for the lists whose sizes
\* all have the dimension 0 that the direction takes the maximum of.
TargetZeroExactly ==
    (call.fn = "compute_target_dimension" /\ ret.returned) =>
        (ret.value = 0 <=>
            \A k \in DOMAIN call.dimensions :
                call.dimensions[k][IF call.direction = "Horizontal" THEN 2 ELSE 1] = 0)

\* In a merge of decoded images, whose dimensions are positive, the planner
\* never finds a target of 0: NoImages is not among the results of merge,
\* and merge_images answers an empty array itself.
NoImagesOnlyForEmptyArray ==
    /\ merge_result # Err(NoImages)
    /\ (result.tag = "err" /\ result.obj.code = "NO_IMAGES") => images_data = << >>

\* C26: merge never returns the TooLarge error, whatever the images and the
\* options: the errors it returns are NoImages, DecodeError and EncodeError,
\* and the record thrown never has the code TOO_LARGE.  No cap on the number
\* of pixels stops a planned output whose width and height fit 32 bits: once
\* the planner has let a size through, only the encoder can fail.
C26_NeverTooLarge ==
    /\ merge_result.tag = "err" =>
           merge_result.error.kind \in {"NoImages", "DecodeError", "EncodeError"}
    /\ result.tag = "err" =>
           result.obj.code \in {"NO_IMAGES", "DECODE_FAILED", "INTERNAL_ERROR",
                                "INVALID_INPUT"}
    /\ (merge_result.tag = "err" /\ scaled_dimensions # << >>) => encoded

\* C26 witness: a merge whose planned output is 2^30 rows or more has gone
\* through to the end without an error.
C26_Witness ==
    /\ pc = "done"
    /\ result.tag = "ok"
    /\ output.allocated
    /\ output.height[1] >= 2 ^ 14

\* C27: every overlap that perform_matching accepts lies between the height
\* of the template and the height of the top image: the matched row is at
\* most search_height - template_height and the search region starts at row
\* 0.  So an accepted overlap is at least 30, and the overlap of every match
\* is above MIN_OVERLAP_PIXELS = 5: that bound rejects nothing.
C27_OverlapAtLeastTemplate ==
    (call.fn = "perform_matching" /\ ret.returned) =>
        /\ call.search_start_y = 0
        /\ call.grid.by <= call.top_height - call.template_height
        /\ call.top_height - (call.search_start_y + call.grid.by) >= 30
        /\ ret.value.some =>
               /\ call.template_height <= ret.value.overlap_pixels
               /\ ret.value.overlap_pixels <= call.top_height
               /\ ret.value.overlap_pixels >= 30

\* C27 witness: a match at the last row of the grid was accepted, with an
\* overlap of exactly the height of the template.
C27_Witness ==
    /\ call.fn = "perform_matching"
    /\ ret.returned
    /\ ret.value.some
    /\ call.grid.by = call.grid.rows - 1
    /\ call.grid.by > 0
    /\ ret.value.overlap_pixels = call.template_height

\* Every row of the grid of the call lies in the exclusion zone around the
\* best row.
AllInExclusionZone ==
    \A y \in 0..(call.grid.rows - 1) :
        Abs(y - call.grid.by) <= Max(call.template_height \div 4, 2)

\* C29: when every position of the result grid lies in the exclusion zone
\* around the best position (as it does when search_height - template_height
\* <= max(template_height / 4, 2)), find_second_best returns negative
\* infinity and the ambiguity gate lets the match through: it is accepted
\* exactly when the best score is finite and at least match_threshold and
\* the overlap lies in [MIN_OVERLAP_PIXELS, bottom_height].
C29_NoCompetitorPassesAmbiguity ==
    (call.fn = "perform_matching" /\ ret.returned) =>
        /\ call.grid.rows - 1 <= Max(call.template_height \div 4, 2)
               => AllInExclusionZone
        /\ AllInExclusionZone =>
               /\ find_second_best(call.grid, call.grid.by, call.template_height)
                      = NegInfinity
               /\ ret.value.some <=>
                      /\ call.grid.best.fin
                      /\ call.grid.best.v >= OverlapConfig(call.sensitivity).match_threshold
                      /\ call.top_height - call.grid.by >= 5
                      /\ call.top_height - call.grid.by <= call.bottom_height

\* C29 witness: a match was accepted although another row of the grid came
\* within the ambiguity gap of the best score: that row lies in the
\* exclusion zone, as every row of the grid does.
C29_Witness ==
    /\ call.fn = "perform_matching"
    /\ ret.returned
    /\ ret.value.some
    /\ AllInExclusionZone
    /\ call.grid.y2 # call.grid.by
    /\ call.grid.best.v - call.grid.second
           < OverlapConfig(call.sensitivity).ambiguity_gap

\* C28: parse_jpeg_exif terminates on every byte sequence: every turn of
\* its loop either returns or moves the read position forward, by 1 for a
\* padding byte and by 2 + length for a segment (also for length 0), and
\* the loop ends once fewer than 4 bytes are left.
C28_ExifLoopAdvances ==
    [][call.fn = "parse_jpeg_exif" =>
          LET bytes == call.data.bytes
              pos   == ReadPosition
          IN  \/ ret'.returned /\ ~ret'.panicked
              \/ /\ ~ret'.returned
                 /\ pos + 4 <= Len(bytes)
                 /\ i' = IF bytes[pos + 2] = 255 THEN pos + 1
                         ELSE pos + 2 + 256 * bytes[pos + 3] + bytes[pos + 4]
                 /\ i' > pos]_vars

\* Every turn of the loop returns, panics or moves the read position
\* forward: the loop cannot go on for ever.
ExifLoopEnds ==
    [][call.fn = "parse_jpeg_exif" => (ret'.returned \/ i' > ReadPosition)]_vars

\* The loop run turn by turn ends as the function does when evaluated whole.
ExifLoopAgrees ==
    (call.fn = "parse_jpeg_exif" /\ ret.returned) =>
        LET whole == parse_jpeg_exif(call.data.bytes, 2, call.data.usize_bits)
        IN  IF whole.kind = "panic" THEN ret = Panicked ELSE ret = Returned(whole)

\* A call that went past a padding byte, and one that went past a whole
\* segment, before it returned.
ExifLoopSkippedPadding ==
    /\ call.fn = "parse_jpeg_exif" /\ ret.returned /\ i = 3

ExifLoopSkippedSegment ==
    /\ call.fn = "parse_jpeg_exif" /\ ret.returned /\ i > 3
    /\ call.data.bytes[4] # 255

(***************************************************************************)
(* The Smart arm of the compositing loop, checked under SpecCalls.         *)
(***************************************************************************)
\* C30: in Smart mode the number of source rows
\* composite_image_with_vertical_crop writes for an image equals
\* rendered_h = max(0, h - crop_top - crop_bottom), the amount by which the
\* offset moves on, for all crops, also when crop_top + crop_bottom > h:
\* the images take adjacent destination row ranges that do not overlap, in
\* input order, and an image whose crops take all of it writes nothing.
C30_CroppedRowsMatchAdvance ==
    call.fn = "composite_smart" =>
        /\ \A k \in DOMAIN placed :
               LET p          == placed[k]
                   h          == call.heights[k]
                   rendered_h == Max(0, h - p.crop_top - p.crop_bottom)
                   next_y     == IF k < Len(placed) THEN Val(placed[k + 1].y)
                                 ELSE Val(offset)
               IN  /\ p.index = k - 1
                   /\ p.written.kept = rendered_h
                   /\ Cardinality(p.written.rows) = rendered_h
                   /\ next_y = Val(p.y) + rendered_h
                   /\ p.written.rows = Val(p.y)..(next_y - 1)
                   /\ p.crop_top + p.crop_bottom >= h => p.written.rows = {}
                   /\ \A j \in DOMAIN placed :
                          j < k => \A a \in placed[j].written.rows :
                                      \A b \in p.written.rows : a < b
        /\ placed # << >> => Val(placed[1].y) = 0
        /\ ret.returned =>
               /\ Len(placed) = Len(call.heights)
               /\ ret.value = Val(offset)

\* C30 witness: two images were composited, the first of 5 rows with crops
\* that leave some of them, the second with crops that exceed its rows.
C30_Witness ==
    /\ call.fn = "composite_smart"
    /\ ret.returned
    /\ Len(placed) = 2
    /\ placed[1].crop_top > 0 /\ placed[1].crop_bottom > 0
    /\ placed[1].written.kept > 0
    /\ call.heights[2] > 0
    /\ placed[2].crop_top < call.heights[2]
    /\ placed[2].crop_top + placed[2].crop_bottom > call.heights[2]
    /\ placed[2].written.rows = {}

\* In a merge the placements of a Smart run are those ranges: image k
\* starts where image k - 1 ended, and the crops never exceed the rows.
SmartRangesAdjacent ==
    (merge_options.direction = "Smart" /\ output.allocated) =>
        \A k \in DOMAIN placed :
            LET next_y == IF k < Len(placed) THEN Val(placed[k + 1].y)
                          ELSE Val(offset)
            IN  /\ placed[k].crop_top + placed[k].crop_bottom <= ScaledHeight(k)
                /\ Written(k).rows = Val(placed[k].y)..(next_y - 1)
                /\ next_y - Val(placed[k].y) = Written(k).kept

\* A Smart run in which the crops of an image take all of its rows.
WhollyCropped ==
    /\ merge_options.direction = "Smart"
    /\ output.allocated
    /\ \E k \in DOMAIN placed :
           placed[k].crop_top + placed[k].crop_bottom = ScaledHeight(k)

=============================================================================
